---- MODULE Spec2Model ----
(***************************************************************************)
(* Model of rts/Sim/MoveTypes/MoveDefHandler.cpp: the MoveDef constructor, *)
(* MoveDef::DoRawSearch (the bidirectional line walk with its terrain and  *)
(* object tests), TestMoveSquareRange, TestMovePositionForObjects,         *)
(* GetDepthMod and CalcCheckSum.                                           *)
(*                                                                         *)
(* World coordinates are fixed-point: a coordinate c stands for c / PosDen *)
(* world units.  Heights are whole world units.  Speed modifiers are whole *)
(* multiples of an arbitrary unit.                                         *)
(***************************************************************************)
EXTENDS Integers, Sequences, FiniteSets, TLC

VARIABLES
    pc,         \* position of the running call
    in,         \* arguments of the call and the configuration it reads
    md,         \* the MoveDef the call is made on (*this)
    collider,   \* the real collider (const CSolidObject*)
    walk,       \* walkPath's locals and the cursor whose cell is tested next
    loc,        \* DoRawSearch's locals
    env,        \* terrain, blocking grid and the per-thread epoch counters
    log,        \* history: the cells tested, the queries issued
    out,        \* what the call returned / wrote through its pointers
    rq          \* the TestMoveSquareRange / TestMovePositionForObjects calls made next

vars == <<pc, in, md, collider, walk, loc, env, log, out, rq>>

----------------------------------------------------------------------------
(* Bounds of the model *)

PosDen == 2
MapX == 3
MapY == 2
MaxSpeedMod == 2
MaxThreshold == 1
MaxDepth == 4
MaxHalfSize == 1
NumThreads == 2

(* Program constants *)

SQUARE_SIZE == 8
FLT_MAX == 1000000
BLOCK_NONE == 0
BLOCK_MOBILE == 2
BLOCK_STRUCTURE == 8
PSTATE_BIT_ONGROUND == 1
PSTATE_BIT_INWATER == 2
CSTATE_DEFAULT == 7

----------------------------------------------------------------------------
(* Arithmetic helpers *)

Abs(a) == IF a < 0 THEN -a ELSE a
Max(a, b) == IF a >= b THEN a ELSE b
Min(a, b) == IF a <= b THEN a ELSE b
B2I(b) == IF b THEN 1 ELSE 0

\* conversion of the float n / d to int: truncation toward zero
Trunc(n, d) == IF n >= 0 THEN n \div d ELSE -((-n) \div d)

\* bit operations on small masks whose bits are 1, 2, 4, 8
HasBit(m, b) == (m \div b) % 2 = 1
SetBit(m, b) == IF HasBit(m, b) THEN m ELSE m + b
ClearBit(m, b) == IF HasBit(m, b) THEN m - b ELSE m

Int2(a, b) == [x |-> a, y |-> b]

----------------------------------------------------------------------------
(* CSolidObject *)

SetPhysicalStateBit(o, bit) == [o EXCEPT !.physicalState = SetBit(@, bit)]

ClearCollidableStateBit(o, bit) == [o EXCEPT !.collidableState = ClearBit(@, bit)]

\* a default-constructed CSolidObject, then height and pos copied
NewSolidObject ==
    [posY |-> 0, height |-> 0,
     physicalState |-> PSTATE_BIT_ONGROUND, collidableState |-> CSTATE_DEFAULT]

----------------------------------------------------------------------------
(* DoRawSearch: start and end block *)

\* a plausible slip: the bias points from start to end
BiasDirForward(a, b) == IF a = b THEN 0 ELSE B2I(a < b) * 2 - 1

\* a plausible slip: equal coordinates are biased too
BiasDirAlways(a, b) == 1 - B2I(a < b) * 2

\* 1 - float(a < b) * 2, or 0 when the coordinates are equal
BiasDir(a, b) == IF a = b THEN 0 ELSE 1 - B2I(a < b) * 2

StartBlock(startPos) ==
    Int2(Trunc(startPos.x, SQUARE_SIZE * PosDen), Trunc(startPos.z, SQUARE_SIZE * PosDen))

EndBlock(startPos, endPos) ==
    LET upDir    == BiasDir(startPos.z, endPos.z)
        rightDir == BiasDir(startPos.x, endPos.x)
    IN  Int2(Trunc(endPos.x + rightDir * PosDen, SQUARE_SIZE * PosDen),
             Trunc(endPos.z + upDir * PosDen, SQUARE_SIZE * PosDen))

----------------------------------------------------------------------------
(* walkPath *)

StepFunc(dir, dif, pos, err) ==
    [pos |-> Int2(pos.x + dir.x * B2I(err.y >= 0), pos.y + dir.y * B2I(err.y <= 0)),
     err |-> Int2(err.x - dif.y * B2I(err.y >= 0) + dif.x * B2I(err.y <= 0), err.y)]

\* a plausible slip: the reverse cursor's error runs mirrored
RevStepErrMirrored(fwdStepErr) == Int2(-fwdStepErr.x, -fwdStepErr.y)

\* line 336: int2 revStepErr = fwdStepErr
RevStepErr(fwdStepErr) == fwdStepErr

\* the locals of walkPath when the loop is entered for the first time
WalkInit(startBlock, endBlock) ==
    LET diffBlk == Int2(Abs(endBlock.x - startBlock.x), Abs(endBlock.y - startBlock.y))
    IN  [startBlock |-> startBlock,
         endBlock   |-> endBlock,
         diffBlk    |-> diffBlk,
         fwdStepDir |-> Int2(B2I(endBlock.x > startBlock.x) * 2 - 1,
                             B2I(endBlock.y > startBlock.y) * 2 - 1),
         revStepDir |-> Int2(B2I(startBlock.x > endBlock.x) * 2 - 1,
                             B2I(startBlock.y > endBlock.y) * 2 - 1),
         blkStepCtr |-> Int2(diffBlk.x + diffBlk.y + 1, diffBlk.x + diffBlk.y + 1),
         fwdStepErr |-> Int2(diffBlk.x - diffBlk.y, diffBlk.x - diffBlk.y),
         revStepErr |-> RevStepErr(Int2(diffBlk.x - diffBlk.y, diffBlk.x - diffBlk.y)),
         fwdTestBlk |-> startBlock,
         revTestBlk |-> endBlock,
         cur        |-> "fwd",
         iters      |-> 1,
         running    |-> TRUE,
         result     |-> TRUE]

\* a plausible slip: within one cell of each other on one axis is enough
AdjacentOnOneAxis(w) ==
    \/ Abs(w.fwdTestBlk.x - w.revTestBlk.x) <= 1
    \/ Abs(w.fwdTestBlk.y - w.revTestBlk.y) <= 1

\* a plausible slip: the cursors stop two cells apart
AdjacentWithinTwo(w) ==
    /\ Abs(w.fwdTestBlk.x - w.revTestBlk.x) <= 2
    /\ Abs(w.fwdTestBlk.y - w.revTestBlk.y) <= 2

\* "within one cell of each other on both axes"
Adjacent(w) ==
    /\ Abs(w.fwdTestBlk.x - w.revTestBlk.x) <= 1
    /\ Abs(w.fwdTestBlk.y - w.revTestBlk.y) <= 1

\* a plausible slip: the loop's own decrement is missing
StepCtrAfterVertexOnly(blkStepCtr, fwdStepErr, revStepErr) ==
    Int2(blkStepCtr.x - B2I(fwdStepErr.y = 0), blkStepCtr.y - B2I(revStepErr.y = 0))

\* lines 358-359 and the decrement of line 343
StepCtrAfter(blkStepCtr, fwdStepErr, revStepErr) ==
    Int2(blkStepCtr.x - B2I(fwdStepErr.y = 0) - 1, blkStepCtr.y - B2I(revStepErr.y = 0) - 1)

\* the rest of a loop iteration after both cells passed, and the loop test
WalkAdvance(w) ==
    IF Adjacent(w)
    THEN [w EXCEPT !.running = FALSE, !.result = TRUE]
    ELSE LET dif == Int2(w.diffBlk.x * 2, w.diffBlk.y * 2)
             f   == StepFunc(w.fwdStepDir, dif, w.fwdTestBlk, w.fwdStepErr)
             r   == StepFunc(w.revStepDir, dif, w.revTestBlk, w.revStepErr)
             ctr == StepCtrAfter(w.blkStepCtr, f.err, r.err)
             go  == ctr.x > 0 /\ ctr.y > 0
         IN  [w EXCEPT !.fwdTestBlk = f.pos,
                       !.revTestBlk = r.pos,
                       !.fwdStepErr = Int2(f.err.x, f.err.x),
                       !.revStepErr = Int2(r.err.x, r.err.x),
                       !.blkStepCtr = ctr,
                       !.cur        = "fwd",
                       !.iters      = IF go THEN @ + 1 ELSE @,
                       !.running    = go,
                       !.result     = TRUE]

\* the cell f is called on next
TestBlk(w) == IF w.cur = "fwd" THEN w.fwdTestBlk ELSE w.revTestBlk

\* a plausible slip: f(fwd) & f(rev), the reverse cell is tested after a failure
WalkAfterTestBoth(w, ok) ==
    IF w.cur = "fwd" THEN [w EXCEPT !.cur = "rev", !.result = ok]
    ELSE IF ~(w.result /\ ok) THEN [w EXCEPT !.running = FALSE, !.result = FALSE]
    ELSE WalkAdvance(w)

\* the walk after f returned ok for TestBlk(w)
WalkAfterTest(w, ok) ==
    IF ~ok THEN [w EXCEPT !.running = FALSE, !.result = FALSE]
    ELSE IF w.cur = "fwd" THEN [w EXCEPT !.cur = "rev"]
    ELSE WalkAdvance(w)

----------------------------------------------------------------------------
(* The environment the call reads: terrain, blocking grid, epoch counters. *)
(* A cell's speed modifier, a height-map entry and the answer to a blocking *)
(* query are fixed the first time they are read and kept in env.            *)

SpeedMods == 0 .. MaxSpeedMod
Thresholds == 0 .. MaxThreshold
Heights == {-MaxDepth, -1, 1}
BlockTypes == {BLOCK_NONE, BLOCK_MOBILE, BLOCK_STRUCTURE}
Threads == 0 .. (NumThreads - 1)

OffMap(x, z) == x >= MapX \/ x < 0 \/ z >= MapY \/ z < 0

\* CMoveMath::GetPosSpeedMod(*this, x, z, testMoveDir2D)
SpeedChoices(e, x, z) ==
    IF <<x, z>> \in DOMAIN e.speed THEN {e.speed[<<x, z>>]} ELSE SpeedMods

\* readMap->GetMaxHeightMapSynced()[idx]: an index outside the array reads anything
HeightChoices(e, idx) ==
    IF idx < 0 \/ idx >= MapX * MapY THEN Heights
    ELSE IF idx \in DOMAIN e.height THEN {e.height[idx]} ELSE Heights

\* CMoveMath::RangeIsBlocked*: decided by the cell range and the collider's pos.y
BlockKey(xmin, xmax, zmin, zmax, o) == <<xmin, xmax, zmin, zmax, o.posY>>

BlockChoices(e, key) ==
    IF key \in DOMAIN e.block THEN {e.block[key]} ELSE BlockTypes

Remember(f, k, v) == IF k \in DOMAIN f THEN f ELSE f @@ (k :> v)

RememberHeight(f, idx, v) ==
    IF idx < 0 \/ idx >= MapX * MapY THEN f ELSE Remember(f, idx, v)

\* gs->GetMtTempNum(thread): the value returned
GetMtTempNum(e, thread) == e.mtTempNum[thread]

\* a plausible slip: one counter shared by all threads
AfterGetMtTempNumShared(e, thread) == [e EXCEPT !.mtTempNum = [t \in DOMAIN @ |-> @[t] + 1]]

\* gs->GetMtTempNum(thread): the counters after the call
AfterGetMtTempNum(e, thread) == [e EXCEPT !.mtTempNum[thread] = @ + 1]

----------------------------------------------------------------------------
(* DoRawSearch: the two cell tests *)

\* a plausible slip: a modifier equal to the threshold passes
TerrainCellAtLeast(minSpeedMod, speedModThreshold, x, z, speedMod) ==
    IF OffMap(x, z)
    THEN [ok |-> TRUE, minSpeedMod |-> minSpeedMod, sampled |-> FALSE]
    ELSE [ok |-> speedMod >= speedModThreshold,
          minSpeedMod |-> Min(minSpeedMod, speedMod),
          sampled |-> TRUE]

\* a plausible slip: no bounds test, a cell off the map is sampled like any other
TerrainCellNoBounds(minSpeedMod, speedModThreshold, x, z, speedMod) ==
    [ok |-> speedMod > speedModThreshold,
     minSpeedMod |-> Min(minSpeedMod, speedMod),
     sampled |-> TRUE]

\* a plausible slip: the minimum is taken after the test, over passing cells only
TerrainCellMinOfPassing(minSpeedMod, speedModThreshold, x, z, speedMod) ==
    IF OffMap(x, z)
    THEN [ok |-> TRUE, minSpeedMod |-> minSpeedMod, sampled |-> FALSE]
    ELSE [ok |-> speedMod > speedModThreshold,
          minSpeedMod |-> IF speedMod > speedModThreshold
                          THEN Min(minSpeedMod, speedMod) ELSE minSpeedMod,
          sampled |-> TRUE]

\* the terrain test lambda on cell (x, z), speedMod being what GetPosSpeedMod returns
TerrainCell(minSpeedMod, speedModThreshold, x, z, speedMod) ==
    IF OffMap(x, z)
    THEN [ok |-> TRUE, minSpeedMod |-> minSpeedMod, sampled |-> FALSE]
    ELSE [ok |-> speedMod > speedModThreshold,
          minSpeedMod |-> Min(minSpeedMod, speedMod),
          sampled |-> TRUE]

IsSubmersible(c) ==
    c.moveDef.isSubmarine \/ (c.moveDef.followGround /\ c.moveDef.depth > c.height)

\* the object branch's set-up: the epoch, the virtual object, the last* trackers
ObjectsSetup(c, l, fresh) ==
    LET vo0 == [NewSolidObject EXCEPT !.height = c.height, !.posY = c.posY]
        lastInWater == c.posY < 0
    IN  [l EXCEPT !.tempNum        = fresh,
                  !.virtualObject  = IF lastInWater
                                     THEN SetPhysicalStateBit(vo0, PSTATE_BIT_INWATER)
                                     ELSE vo0,
                  !.lastPosY       = c.posY,
                  !.lastInWater    = lastInWater,
                  !.lastUnderWater = (c.posY + c.height < 0),
                  !.isSubmersible  = IsSubmersible(c)]

\* a plausible slip: the loops run column by column
RangeNextColumnMajor(box, x, z, ok) ==
    LET colOn == ok /\ z + 1 <= box.zmax
        nx    == IF colOn THEN x ELSE x + 1
        nz    == IF colOn THEN z + 1 ELSE box.zmin
    IN  [x |-> nx, z |-> nz, on |-> ok /\ nx <= box.xmax]

\* lines 477-478: the cell the two loops reach after cell (x, z) whose test
\* left retTestMove = ok, and whether they go on
RangeNext(box, x, z, ok) ==
    LET rowOn == ok /\ x + 1 <= box.xmax
        nz    == IF rowOn THEN z ELSE z + 1
        nx    == IF rowOn THEN x + 1 ELSE box.xmin
    IN  [x |-> nx, z |-> nz, on |-> ok /\ nz <= box.zmax]

\* a plausible slip: the masks of all queries are accumulated
MaxBlockBitMax(maxBlockBit, blockBits) == Max(maxBlockBit, blockBits)

\* line 438: maxBlockBit = blockBits
MaxBlockBitAfter(maxBlockBit, blockBits) == blockBits

\* a plausible slip: the sampled height is written to the real collider
PlaceCollider(c, vo, h) ==
    [collider |-> [c EXCEPT !.posY = h], virtualObject |-> vo]

\* line 414: virtualObject.pos.y = <height-map entry>
PlaceVirtualObject(c, vo, h) ==
    [collider |-> c, virtualObject |-> [vo EXCEPT !.posY = h]]

\* the object test lambda up to its blocking query, h being the height-map entry read
\* and fresh the epoch GetMtTempNum would return; drew tells whether it was called
SubmersibleUpdate(c, l, h, fresh) ==
    IF ~l.isSubmersible
    THEN [collider |-> c, loc |-> l, drew |-> FALSE]
    ELSE LET placed     == PlaceVirtualObject(c, l.virtualObject, h)
             vo1        == placed.virtualObject
             changed    == l.lastPosY # vo1.posY
             underWater == (vo1.posY + vo1.height < 0)
             inWater    == (vo1.posY < 0)
             draw       == changed /\ l.lastUnderWater # underWater
             flip       == changed /\ l.lastInWater # inWater
             vo2        == IF ~flip THEN vo1
                           ELSE IF inWater
                                THEN SetPhysicalStateBit(vo1, PSTATE_BIT_INWATER)
                                ELSE ClearCollidableStateBit(vo1, PSTATE_BIT_INWATER)
         IN  [collider |-> placed.collider,
              loc      |-> [l EXCEPT !.virtualObject  = vo2,
                                     !.tempNum        = IF draw THEN fresh ELSE @,
                                     \* "lastUnderWater != underWater;" assigns nothing
                                     !.lastUnderWater = @,
                                     !.lastInWater    = IF flip THEN inWater ELSE @,
                                     !.lastPosY       = vo1.posY],
              drew     |-> draw]

\* a plausible slip: the footprint box is not clamped to the map
QueryRangeUnclamped(m, centerOnly, x, z) ==
    [xmin |-> x - m.xsizeh * (1 - B2I(centerOnly)),
     zmin |-> z - m.zsizeh * (1 - B2I(centerOnly)),
     xmax |-> x + m.xsizeh * (1 - B2I(centerOnly)),
     zmax |-> z + m.zsizeh * (1 - B2I(centerOnly))]

\* the cell range of the blocking query on cell (x, z)
QueryRange(m, centerOnly, x, z) ==
    [xmin |-> Max(x - m.xsizeh * (1 - B2I(centerOnly)), 0),
     zmin |-> Max(z - m.zsizeh * (1 - B2I(centerOnly)), 0),
     xmax |-> Min(x + m.xsizeh * (1 - B2I(centerOnly)), MapX - 1),
     zmax |-> Min(z + m.zsizeh * (1 - B2I(centerOnly)), MapY - 1)]

BlocksStructure(blockBits) == HasBit(blockBits, BLOCK_STRUCTURE)

----------------------------------------------------------------------------
(* A DoRawSearch call, one step per cell test *)

Cell == SQUARE_SIZE * PosDen

\* the world position at the middle of cell (cx, cz)
MidCoord(c) == IF c >= 0 THEN c * Cell + Cell \div 2 ELSE c * Cell - Cell \div 2

CellMid(cx, cz) == [x |-> MidCoord(cx), z |-> MidCoord(cz)]

EmptyMap == [k \in {} |-> 0]

NoLocals ==
    [minSpeedMod |-> FLT_MAX, maxBlockBit |-> BLOCK_NONE, retTestMove |-> TRUE,
     tempNum |-> 0, virtualObject |-> NewSolidObject,
     lastPosY |-> 0, lastInWater |-> FALSE, lastUnderWater |-> FALSE,
     isSubmersible |-> FALSE]

NoWalk == WalkInit(Int2(0, 0), Int2(0, 0))

NoLog == [terrain |-> <<>>, queries |-> <<>>, draws |-> 0, reads |-> <<>>]

NoOut == [set |-> FALSE]

NoRange == [set |-> FALSE, posObjects |-> TRUE]

ColliderMoveDefs ==
    { [isSubmarine |-> TRUE,  followGround |-> FALSE, depth |-> 0],
      [isSubmarine |-> FALSE, followGround |-> TRUE,  depth |-> MaxDepth],
      [isSubmarine |-> FALSE, followGround |-> TRUE,  depth |-> 0] }

ColliderHeight == 2

Colliders ==
    { [posY |-> y, height |-> ColliderHeight, physicalState |-> ps,
       collidableState |-> CSTATE_DEFAULT, moveDef |-> m] :
         y \in {1, -1, -MaxDepth},
         ps \in {PSTATE_BIT_ONGROUND},
         m \in ColliderMoveDefs }

MoveDefs == { [xsizeh |-> MaxHalfSize, zsizeh |-> MaxHalfSize] }

\* assert(testTerrain || testObjects); the threshold is read by the terrain test
\* only and the thread by the object test only
TestFlags ==
    { [testTerrain |-> TRUE, testObjects |-> FALSE, thread |-> 0, speedModThreshold |-> th] :
        th \in Thresholds }
    \cup
    { [testTerrain |-> FALSE, testObjects |-> TRUE, thread |-> t, speedModThreshold |-> 0] :
        t \in Threads }
    \cup
    { [testTerrain |-> TRUE, testObjects |-> TRUE, thread |-> NumThreads - 1,
       speedModThreshold |-> th] : th \in Thresholds }

RawSearchArgs(pairs) ==
    { [startPos |-> p[1], endPos |-> p[2],
       testTerrain |-> f.testTerrain, testObjects |-> f.testObjects,
       centerOnly |-> c, thread |-> f.thread,
       speedModThreshold |-> f.speedModThreshold] :
         p \in pairs, f \in TestFlags, c \in BOOLEAN }

EnvPairs ==
    { <<CellMid(0, 0), CellMid(0, 0)>>,
      <<CellMid(0, 0), CellMid(2, 0)>>,
      <<CellMid(1, 1), CellMid(0, 0)>>,
      <<CellMid(-1, 0), CellMid(1, 0)>>,
      <<CellMid(MapX - 1, 0), CellMid(MapX - 1, -1)>> }

InitEnv ==
    /\ pc = "call"
    /\ in \in RawSearchArgs(EnvPairs)
    /\ md \in MoveDefs
    /\ collider \in Colliders
    /\ walk = NoWalk
    /\ loc = NoLocals
    /\ env = [mtTempNum |-> [t \in Threads |-> 1],
              speed |-> EmptyMap, height |-> EmptyMap, block |-> EmptyMap]
    /\ log = NoLog
    /\ out = NoOut
    /\ rq = NoRange

\* lines 309-372 and the branch of line 374
Enter ==
    /\ pc = "call"
    /\ walk' = WalkInit(StartBlock(in.startPos), EndBlock(in.startPos, in.endPos))
    /\ loc' = NoLocals
    /\ pc' = IF in.testTerrain THEN "terrain" ELSE "between"
    /\ UNCHANGED <<in, md, collider, env, log, out, rq>>

\* one call of the terrain lambda by walkPath, and walkPath up to its next call
TerrainTest ==
    /\ pc = "terrain"
    /\ LET b == TestBlk(walk) IN
       \E s \in (IF OffMap(b.x, b.y) THEN {0} ELSE SpeedChoices(env, b.x, b.y)) :
          LET r == TerrainCell(loc.minSpeedMod, in.speedModThreshold, b.x, b.y, s)
              w == WalkAfterTest(walk, r.ok)
          IN  /\ walk' = w
              /\ loc' = [loc EXCEPT !.minSpeedMod = r.minSpeedMod,
                                    !.retTestMove = IF w.running THEN @ ELSE w.result]
              /\ env' = IF r.sampled
                        THEN [env EXCEPT !.speed = Remember(@, <<b.x, b.y>>, s)]
                        ELSE env
              /\ log' = [log EXCEPT !.terrain =
                            Append(@, [x |-> b.x, z |-> b.y, sampled |-> r.sampled,
                                       speedMod |-> s, ok |-> r.ok])]
              /\ pc' = IF w.running THEN "terrain" ELSE "between"
    /\ UNCHANGED <<in, md, collider, out, rq>>

\* a plausible slip: the object walk runs whatever the terrain walk returned
ObjectsWantedAlways(testObjects, retTestMove) == testObjects

\* line 388: testObjects & retTestMove
ObjectsWanted(testObjects, retTestMove) == testObjects /\ retTestMove

\* line 388 taken: lines 389-403 and the start of the second walkPath
ObjectsBegin ==
    /\ pc = "between"
    /\ ObjectsWanted(in.testObjects, loc.retTestMove)
    /\ loc' = ObjectsSetup(collider, loc, GetMtTempNum(env, in.thread))
    /\ env' = AfterGetMtTempNum(env, in.thread)
    /\ walk' = WalkInit(StartBlock(in.startPos), EndBlock(in.startPos, in.endPos))
    /\ log' = [log EXCEPT !.draws = @ + 1]
    /\ pc' = "objects"
    /\ UNCHANGED <<in, md, collider, out, rq>>

\* line 388 not taken
ObjectsSkip ==
    /\ pc = "between"
    /\ ~ObjectsWanted(in.testObjects, loc.retTestMove)
    /\ pc' = "ret"
    /\ UNCHANGED <<in, md, collider, walk, loc, env, log, out, rq>>

\* one call of the object lambda by walkPath, and walkPath up to its next call
ObjectTest ==
    /\ pc = "objects"
    /\ LET b   == TestBlk(walk)
           idx == b.y * MapX + b.x
           rg  == QueryRange(md, in.centerOnly, b.x, b.y)
       IN
       \E h \in (IF loc.isSubmersible THEN HeightChoices(env, idx) ELSE {0}) :
          LET u   == SubmersibleUpdate(collider, loc, h, GetMtTempNum(env, in.thread))
              e1  == IF u.drew THEN AfterGetMtTempNum(env, in.thread) ELSE env
              e2  == IF loc.isSubmersible
                     THEN [e1 EXCEPT !.height = RememberHeight(@, idx, h)]
                     ELSE e1
              vo  == u.loc.virtualObject
              key == BlockKey(rg.xmin, rg.xmax, rg.zmin, rg.zmax, vo)
          IN
          \E blockBits \in BlockChoices(env, key) :
             LET ok == ~BlocksStructure(blockBits)
                 w  == WalkAfterTest(walk, ok)
             IN  /\ collider' = u.collider
                 /\ walk' = w
                 /\ loc' = [u.loc EXCEPT !.maxBlockBit = MaxBlockBitAfter(@, blockBits),
                                         !.retTestMove = IF w.running THEN @ ELSE w.result]
                 /\ env' = [e2 EXCEPT !.block = Remember(@, key, blockBits)]
                 /\ log' = [log EXCEPT
                       !.draws = IF u.drew THEN @ + 1 ELSE @,
                       !.reads = IF loc.isSubmersible
                                 THEN Append(@, [x |-> b.x, z |-> b.y, idx |-> idx])
                                 ELSE @,
                       !.queries = Append(@,
                           [x |-> b.x, z |-> b.y, range |-> rg,
                            epoch |-> u.loc.tempNum,
                            posY |-> vo.posY,
                            underWater |-> (vo.posY + vo.height < 0),
                            inWaterBit |-> HasBit(vo.physicalState, PSTATE_BIT_INWATER),
                            blockBits |-> blockBits])]
                 /\ pc' = IF w.running THEN "objects" ELSE "ret"
    /\ UNCHANGED <<in, md, out, rq>>

\* lines 444-447, both pointers given
Return ==
    /\ pc = "ret"
    /\ out' = [set |-> TRUE, result |-> loc.retTestMove,
               minSpeedMod |-> loc.minSpeedMod, maxBlockBit |-> loc.maxBlockBit]
    /\ pc' = "done"
    /\ UNCHANGED <<in, md, collider, walk, loc, env, log, rq>>

NextRaw ==
    \/ Enter
    \/ TerrainTest
    \/ ObjectsBegin
    \/ ObjectsSkip
    \/ ObjectTest
    \/ Return

SpecEnv == InitEnv /\ [][NextRaw]_vars

----------------------------------------------------------------------------
(* Terrain-only calls over a terrain on which every cell passes: the cells a *)
(* call tests are decided by its start and end position alone.              *)

\* coordinates on, just beside and between cell boundaries, on both sides of 0
FineCoords ==
    { -Cell - 1, -Cell, -(Cell \div 2), 0, 1, Cell \div 2,
      Cell, Cell + 1, Cell + Cell \div 2, 2 * Cell }

FinePairs ==
    { <<[x |-> ax, z |-> az], [x |-> bx, z |-> bz]>> :
        ax \in FineCoords, az \in FineCoords, bx \in FineCoords, bz \in FineCoords }

GeoMaxX == 4
GeoMaxZ == 3

CoarsePairs ==
    { <<CellMid(ax, az), CellMid(bx, bz)>> :
        ax \in 0 .. GeoMaxX, az \in 0 .. GeoMaxZ, bx \in 0 .. GeoMaxX, bz \in 0 .. GeoMaxZ }

InitGeo ==
    /\ pc = "call"
    /\ \E p \in FinePairs \cup CoarsePairs :
          in = [startPos |-> p[1], endPos |-> p[2],
                testTerrain |-> TRUE, testObjects |-> FALSE,
                centerOnly |-> FALSE, thread |-> 0, speedModThreshold |-> 0]
    /\ md \in MoveDefs
    /\ collider = [posY |-> 1, height |-> ColliderHeight,
                   physicalState |-> PSTATE_BIT_ONGROUND,
                   collidableState |-> CSTATE_DEFAULT,
                   moveDef |-> [isSubmarine |-> FALSE, followGround |-> TRUE, depth |-> 0]]
    /\ walk = NoWalk
    /\ loc = NoLocals
    /\ env = [mtTempNum |-> [t \in Threads |-> 1],
              speed |-> [c \in (0 .. MapX - 1) \X (0 .. MapY - 1) |-> MaxSpeedMod],
              height |-> EmptyMap, block |-> EmptyMap]
    /\ log = NoLog
    /\ out = NoOut
    /\ rq = NoRange

NextGeo ==
    \/ Enter
    \/ TerrainTest
    \/ ObjectsSkip
    \/ Return

SpecGeo == InitGeo /\ [][NextGeo]_vars

\* the call is synchronous: a call that has a next step takes it
SpecGeoFair == SpecGeo /\ WF_vars(NextGeo)

\* the cells walkPath tests from walk state w on when every test passes
RECURSIVE WalkCellsFrom(_)
WalkCellsFrom(w) ==
    LET n == WalkAdvance(w)
    IN  {w.fwdTestBlk, w.revTestBlk} \cup (IF n.running THEN WalkCellsFrom(n) ELSE {})

WalkCells(startBlock, endBlock) == WalkCellsFrom(WalkInit(startBlock, endBlock))

\* the cells the terrain walk of the call has tested
TerrainCells == { Int2(log.terrain[i].x, log.terrain[i].z) : i \in DOMAIN log.terrain }

PassedTerrainWalk == pc = "done" /\ in.testTerrain /\ ~in.testObjects /\ out.result

----------------------------------------------------------------------------
(* TestMoveSquareRange and TestMovePositionForObjects, called after the      *)
(* RawSearch call with rangeMins = rangeMaxs = testMovePos = startPos and    *)
(* the same flags, on the same terrain and blocking grid.                    *)

\* lines 464-467
RangeBox(m, centerOnly, rangeMins, rangeMaxs) ==
    [xmin |-> Trunc(rangeMins.x, Cell) - m.xsizeh * (1 - B2I(centerOnly)),
     zmin |-> Trunc(rangeMins.z, Cell) - m.zsizeh * (1 - B2I(centerOnly)),
     xmax |-> Trunc(rangeMaxs.x, Cell) + m.xsizeh * (1 - B2I(centerOnly)),
     zmax |-> Trunc(rangeMaxs.z, Cell) + m.zsizeh * (1 - B2I(centerOnly))]

\* lines 508-511
PositionBox(m, testMovePos) ==
    [xmin |-> Trunc(testMovePos.x, Cell) - m.xsizeh,
     zmin |-> Trunc(testMovePos.z, Cell) - m.zsizeh,
     xmax |-> Trunc(testMovePos.x, Cell) + m.xsizeh,
     zmax |-> Trunc(testMovePos.z, Cell) + m.zsizeh]

\* lines 481-482: one pass of the inner loop's body
RangeCell(minSpeedMod, speedMod) ==
    [minSpeedMod |-> Min(minSpeedMod, speedMod), retTestMove |-> speedMod > 0]

\* the box the caller asks about: startPos alone unless the call names two corners
RangeMins(a) == IF "rangeMins" \in DOMAIN a THEN a.rangeMins ELSE a.startPos
RangeMaxs(a) == IF "rangeMaxs" \in DOMAIN a THEN a.rangeMaxs ELSE a.startPos

\* lines 462-476
RangeEnter ==
    /\ pc = "done"
    /\ LET box == RangeBox(md, in.centerOnly, RangeMins(in), RangeMaxs(in))
       IN  /\ rq' = [set |-> FALSE, posObjects |-> TRUE, magicNum |-> 0,
                     box |-> box, x |-> box.xmin, z |-> box.zmin,
                     minSpeedMod |-> FLT_MAX, maxBlockBit |-> BLOCK_NONE,
                     retTestMove |-> TRUE, sampled |-> <<>>, queries |-> <<>>]
           /\ pc' = IF in.testTerrain /\ box.zmin <= box.zmax /\ box.xmin <= box.xmax
                    THEN "rangeTerrain" ELSE "rangeObjects"
    /\ UNCHANGED <<in, md, collider, walk, loc, env, log, out>>

\* lines 477-484: the loop body on one cell, and the loops up to the next cell
RangeTerrainCell ==
    /\ pc = "rangeTerrain"
    /\ \E s \in SpeedChoices(env, rq.x, rq.z) :
          LET r  == RangeCell(rq.minSpeedMod, s)
              nx == RangeNext(rq.box, rq.x, rq.z, r.retTestMove)
              on == nx.on
          IN  /\ rq' = [rq EXCEPT !.minSpeedMod = r.minSpeedMod,
                                  !.retTestMove = r.retTestMove,
                                  !.x = nx.x, !.z = nx.z,
                                  !.sampled = Append(@, [x |-> rq.x, z |-> rq.z,
                                                         speedMod |-> s])]
              /\ env' = [env EXCEPT !.speed = Remember(@, <<rq.x, rq.z>>, s)]
              /\ pc' = IF on THEN "rangeTerrain" ELSE "rangeObjects"
    /\ UNCHANGED <<in, md, collider, walk, loc, log, out>>

\* lines 489-499, the branch of line 489 taken
RangeObjects ==
    /\ pc = "rangeObjects"
    /\ in.testObjects /\ rq.retTestMove
    /\ LET key == BlockKey(rq.box.xmin, rq.box.xmax, rq.box.zmin, rq.box.zmax, collider)
       IN  \E blockBits \in BlockChoices(env, key) :
              /\ rq' = [rq EXCEPT !.set = TRUE,
                                  !.maxBlockBit = blockBits,
                                  !.retTestMove = ~BlocksStructure(blockBits),
                                  !.queries = Append(@, [range |-> rq.box,
                                                         blockBits |-> blockBits])]
              /\ env' = [env EXCEPT !.block = Remember(@, key, blockBits)]
    /\ pc' = "rangeDone"
    /\ UNCHANGED <<in, md, collider, walk, loc, log, out>>

\* lines 489-499, the branch of line 489 not taken
RangeObjectsSkip ==
    /\ pc = "rangeObjects"
    /\ ~(in.testObjects /\ rq.retTestMove)
    /\ rq' = [rq EXCEPT !.set = TRUE]
    /\ pc' = "rangeDone"
    /\ UNCHANGED <<in, md, collider, walk, loc, env, log, out>>

MagicNums == 1 .. NumThreads

\* a plausible slip: the query is tagged with a fresh epoch of the thread
PositionQueryFreshEpoch(m, testMovePos, magicNum, e, thread) ==
    [range |-> PositionBox(m, testMovePos), epoch |-> GetMtTempNum(e, thread),
     env |-> AfterGetMtTempNum(e, thread)]

\* lines 508-513: the range and the epoch RangeIsBlockedTempNum is called with,
\* and the epoch counters after the call
PositionQuery(m, testMovePos, magicNum, e, thread) ==
    [range |-> PositionBox(m, testMovePos), epoch |-> magicNum, env |-> e]

\* TestMovePositionForObjects(collider, startPos, magicNum, thread)
PositionForObjects ==
    /\ pc = "rangeDone"
    /\ \E magicNum \in MagicNums :
          LET q   == PositionQuery(md, in.startPos, magicNum, env, in.thread)
              box == q.range
              key == BlockKey(box.xmin, box.xmax, box.zmin, box.zmax, collider)
          IN  \E blockBits \in BlockChoices(env, key) :
                 /\ rq' = [rq EXCEPT !.queries =
                                Append(@, [range |-> box, blockBits |-> blockBits,
                                           epoch |-> q.epoch]),
                                     !.magicNum = magicNum,
                                     !.posObjects = ~BlocksStructure(blockBits)]
                 /\ env' = [q.env EXCEPT !.block = Remember(@, key, blockBits)]
    /\ pc' = "allDone"
    /\ UNCHANGED <<in, md, collider, walk, loc, log, out>>

SamePairs ==
    { <<CellMid(1, 0), CellMid(1, 0)>>,
      <<CellMid(0, 0), [x |-> MidCoord(0) + 1, z |-> MidCoord(0)]>>,
      <<CellMid(-1, 0), CellMid(-1, 0)>>,
      <<[x |-> Cell, z |-> MidCoord(0)], [x |-> Cell + 1, z |-> MidCoord(0)]>>,
      <<CellMid(0, 0), CellMid(1, 0)>> }

SameMoveDefs == { [xsizeh |-> MaxHalfSize, zsizeh |-> 0], [xsizeh |-> 0, zsizeh |-> 0] }

SameColliders ==
    { c \in Colliders : c.moveDef.depth = 0 /\ c.posY # -1 }

InitSame ==
    /\ pc = "call"
    /\ in \in RawSearchArgs(SamePairs)
    /\ md \in SameMoveDefs
    /\ collider \in SameColliders
    /\ walk = NoWalk
    /\ loc = NoLocals
    /\ env = [mtTempNum |-> [t \in Threads |-> 1],
              speed |-> EmptyMap, height |-> EmptyMap, block |-> EmptyMap]
    /\ log = NoLog
    /\ out = NoOut
    /\ rq = NoRange

NextSame ==
    \/ Enter
    \/ TerrainTest
    \/ ObjectsBegin
    \/ ObjectsSkip
    \/ ObjectTest
    \/ Return
    \/ RangeEnter
    \/ RangeTerrainCell
    \/ RangeObjects
    \/ RangeObjectsSkip
    \/ PositionForObjects

SpecSame == InitSame /\ [][NextSame]_vars

----------------------------------------------------------------------------
(* TestMoveSquareRange over a box of several cells, then                    *)
(* TestMovePositionForObjects at startPos                                   *)

RangeArgs ==
    { [startPos |-> CellMid(0, 0), rangeMins |-> CellMid(0, 0), rangeMaxs |-> mx,
       testTerrain |-> f.testTerrain, testObjects |-> f.testObjects,
       centerOnly |-> c, thread |-> f.thread, speedModThreshold |-> 0] :
         mx \in {CellMid(0, 0), CellMid(1, 1)},
         f \in {g \in TestFlags : g.speedModThreshold = 0}, c \in BOOLEAN }

InitRange ==
    /\ pc = "done"
    /\ in \in RangeArgs
    /\ md \in SameMoveDefs
    /\ collider \in SameColliders
    /\ walk = NoWalk
    /\ loc = NoLocals
    /\ env = [mtTempNum |-> [t \in Threads |-> 1],
              speed |-> EmptyMap, height |-> EmptyMap, block |-> EmptyMap]
    /\ log = NoLog
    /\ out = NoOut
    /\ rq = NoRange

NextRange ==
    \/ RangeEnter
    \/ RangeTerrainCell
    \/ RangeObjects
    \/ RangeObjectsSkip
    \/ PositionForObjects

SpecRange == InitRange /\ [][NextRange]_vars

----------------------------------------------------------------------------
(* MoveDef::MoveDef(const LuaTable&) and GetDepthMod.                        *)
(* A configuration table is a function from the keys it holds to values.    *)
(* Depths, heights and footprints are whole units; depth-mod coefficients   *)
(* and scales are hundredths (MIN_SCALE is 0.01); slopes are thousandths.   *)

GetValue(table, key, default) == IF key \in DOMAIN table THEN table[key] ELSE default

Clamp(v, lo, hi) == IF v < lo THEN lo ELSE IF hi < v THEN hi ELSE v

\* std::clamp(SpeedModClass(i), MoveDef::Tank, MoveDef::Ship): Tank, KBot, Hover, Ship
SpeedModClassOf(i) ==
    IF i <= 0 THEN "Tank" ELSE IF i = 1 THEN "KBot" ELSE IF i = 2 THEN "Hover" ELSE "Ship"

\* StringToLower on the names the model configures
StringToLower(str) ==
    CASE str = "ArmBoat" -> "armboat"
      [] str = "CORSHIP" -> "corship"
      [] OTHER           -> str

\* the keywords moveDefName.find() looks for, by name
NameHas ==
    [n \in {"", "armboat", "corship", "hovertank", "armtank", "armkbot"} |->
        CASE n = "armboat"   -> {"boat"}
          [] n = "corship"   -> {"ship"}
          [] n = "hovertank" -> {"hover", "tank"}
          [] n = "armtank"   -> {"tank"}
          [] OTHER           -> {}]

ParseSpeedModClass(moveDefName, moveDefTable) ==
    LET speedModClass == GetValue(moveDefTable, "speedModClass", -1)
    IN  IF speedModClass # -1 THEN SpeedModClassOf(speedModClass)
        ELSE IF "boat" \in NameHas[moveDefName] THEN "Ship"
        ELSE IF "ship" \in NameHas[moveDefName] THEN "Ship"
        ELSE IF "hover" \in NameHas[moveDefName] THEN "Hover"
        ELSE IF "tank" \in NameHas[moveDefName] THEN "Tank"
        ELSE "KBot"

MIN_SCALE == 1
DEFAULT_MIN_WATER_DEPTH == -1000000
DEFAULT_MAX_WATER_DEPTH == 1000000
SPRING_FOOTPRINT_SCALE == 2
GAME_SPEED == 30

\* 1000 * cos(deg3 / 2 degrees), for the angles the model's slopes reach
CosMilli(deg3) ==
    CASE deg3 = 0   -> 1000
      [] deg3 = 45  -> 924
      [] deg3 = 90  -> 707
      [] deg3 = 120 -> 500
      [] deg3 = 180 -> 0

\* DegreesToMaxSlope: 1 - cos(clamp(degrees, 0, 60) * 1.5 degrees), in thousandths
DegreesToMaxSlope(degrees) == 1000 - CosMilli(Clamp(degrees, 0, 60) * 3)

\* MoveDef::MoveDef(): depthModParams
DefaultDepthModParams ==
    [minHeight |-> 0, maxHeight |-> FLT_MAX, maxScale |-> FLT_MAX,
     quadraticCoeff |-> 0, linearCoeff |-> 10, constantCoeff |-> 100]

\* a plausible slip: the coefficients are taken as configured
GroundDepthModParamsUnclamped(moveDefTable) ==
    LET t    == GetValue(moveDefTable, "depthModParams", EmptyMap)
        minH == Max(0, GetValue(t, "minHeight", 0))
    IN  [minHeight      |-> minH,
         maxHeight      |-> Max(minH, GetValue(t, "maxHeight", FLT_MAX)),
         maxScale       |-> Max(MIN_SCALE, GetValue(t, "maxScale", FLT_MAX)),
         quadraticCoeff |-> GetValue(t, "quadraticCoeff", 0),
         linearCoeff    |-> GetValue(t, "linearCoeff", GetValue(moveDefTable, "depthMod", 10)),
         constantCoeff  |-> GetValue(t, "constantCoeff", 100)]

\* a plausible slip: maxHeight is not raised to minHeight
GroundDepthModParamsNoRangeFix(moveDefTable) ==
    LET t == GetValue(moveDefTable, "depthModParams", EmptyMap)
    IN  [minHeight      |-> Max(0, GetValue(t, "minHeight", 0)),
         maxHeight      |-> GetValue(t, "maxHeight", FLT_MAX),
         maxScale       |-> Max(MIN_SCALE, GetValue(t, "maxScale", FLT_MAX)),
         quadraticCoeff |-> Max(0, GetValue(t, "quadraticCoeff", 0)),
         linearCoeff    |-> Max(0, GetValue(t, "linearCoeff",
                                            GetValue(moveDefTable, "depthMod", 10))),
         constantCoeff  |-> Max(0, GetValue(t, "constantCoeff", 100))]

\* lines 193-201
GroundDepthModParams(moveDefTable) ==
    LET t    == GetValue(moveDefTable, "depthModParams", EmptyMap)
        minH == Max(0, GetValue(t, "minHeight", 0))
    IN  [minHeight      |-> minH,
         maxHeight      |-> Max(minH, GetValue(t, "maxHeight", FLT_MAX)),
         maxScale       |-> Max(MIN_SCALE, GetValue(t, "maxScale", FLT_MAX)),
         quadraticCoeff |-> Max(0, GetValue(t, "quadraticCoeff", 0)),
         linearCoeff    |-> Max(0, GetValue(t, "linearCoeff",
                                            GetValue(moveDefTable, "depthMod", 10))),
         constantCoeff  |-> Max(0, GetValue(t, "constantCoeff", 100))]

\* a plausible slip: the 0.001 is left out of the divisor
DefaultSlopeModNoEpsilon(maxSlope) == [n |-> 4000, d |-> maxSlope]

\* line 255: 4.0f / (maxSlope + 0.001f), maxSlope in thousandths
DefaultSlopeMod(maxSlope) == [n |-> 4000, d |-> maxSlope + 1]

\* a plausible slip: a ship is Mixed when its maxWaterDepth is below 0
TerrainClassOfMaxDepth(speedModClass, followGround, minWaterDepth, maxWaterDepth, terrainClass0) ==
    LET c1 == IF (followGround /\ maxWaterDepth <= 0) \/ speedModClass = "Hover"
              THEN "Land" ELSE terrainClass0
        c2 == IF (speedModClass = "Ship" /\ minWaterDepth > 0)
                    \/ (followGround /\ minWaterDepth > 0)
              THEN "Water" ELSE c1
    IN  IF (followGround /\ maxWaterDepth > 0) \/ (speedModClass = "Ship" /\ maxWaterDepth < 0)
        THEN "Mixed" ELSE c2

\* a plausible slip: the three tests form an else-if chain, the first match wins
TerrainClassOfFirstMatch(speedModClass, followGround, minWaterDepth, maxWaterDepth, terrainClass0) ==
    IF (followGround /\ maxWaterDepth <= 0) \/ speedModClass = "Hover" THEN "Land"
    ELSE IF (speedModClass = "Ship" /\ minWaterDepth > 0) \/ (followGround /\ minWaterDepth > 0)
    THEN "Water"
    ELSE IF (followGround /\ maxWaterDepth > 0) \/ (speedModClass = "Ship" /\ minWaterDepth < 0)
    THEN "Mixed"
    ELSE terrainClass0

\* lines 268-277; terrainClass0 is the member's value before the three tests
TerrainClassOf(speedModClass, followGround, minWaterDepth, maxWaterDepth, terrainClass0) ==
    LET c1 == IF (followGround /\ maxWaterDepth <= 0) \/ speedModClass = "Hover"
              THEN "Land" ELSE terrainClass0
        c2 == IF (speedModClass = "Ship" /\ minWaterDepth > 0)
                    \/ (followGround /\ minWaterDepth > 0)
              THEN "Water" ELSE c1
    IN  IF (followGround /\ maxWaterDepth > 0) \/ (speedModClass = "Ship" /\ minWaterDepth < 0)
        THEN "Mixed" ELSE c2

\* a plausible slip: the even size is kept
KeepSize(size) == size

\* lines 287-288: size -= ((size & 1)? 0: 1)
ForceOdd(size) == size - (IF size % 2 = 1 THEN 0 ELSE 1)

\* lines 279-291
Footprint(moveDefTable) ==
    LET xsizeDef == Max(1, GetValue(moveDefTable, "footprintX", 1))
        zsizeDef == Max(1, GetValue(moveDefTable, "footprintZ", xsizeDef))
        xsize    == ForceOdd(xsizeDef * SPRING_FOOTPRINT_SCALE)
        zsize    == ForceOdd(zsizeDef * SPRING_FOOTPRINT_SCALE)
    IN  [xsize |-> xsize, zsize |-> zsize, xsizeh |-> xsize \div 2, zsizeh |-> zsize \div 2]

\* the object MoveDef(const LuaTable&) leaves, m0 being what MoveDef() and the
\* member initialisers left
Construct(m0, moveDefTable) ==
    LET name          == StringToLower(GetValue(moveDefTable, "name", ""))
        minWaterDepth == GetValue(moveDefTable, "minWaterDepth", DEFAULT_MIN_WATER_DEPTH)
        maxWaterDepth == GetValue(moveDefTable, "maxWaterDepth", DEFAULT_MAX_WATER_DEPTH)
        class         == ParseSpeedModClass(name, moveDefTable)
        ground        == class \in {"Tank", "KBot"}
        maxSlope      == IF ground
                         THEN DegreesToMaxSlope(GetValue(moveDefTable, "maxSlope", 60))
                         ELSE IF class = "Hover"
                         THEN DegreesToMaxSlope(GetValue(moveDefTable, "maxSlope", 15))
                         ELSE m0.maxSlope
        fp            == Footprint(moveDefTable)
    IN  [m0 EXCEPT
          !.name           = name,
          !.crushStrength  = GetValue(moveDefTable, "crushStrength", 10),
          !.speedModClass  = class,
          !.depthModParams = IF ground THEN GroundDepthModParams(moveDefTable) ELSE @,
          !.depth          = IF class = "Ship" THEN minWaterDepth ELSE maxWaterDepth,
          !.maxSlope       = maxSlope,
          !.isSubmarine    = IF class = "Ship"
                             THEN GetValue(moveDefTable, "subMarine", FALSE) ELSE @,
          !.speedModMults  = LET t == GetValue(moveDefTable, "speedModMults", EmptyMap)
                             IN  [@ EXCEPT !.busy = Max(1, GetValue(t, "mobileBusyMult", 100)),
                                           !.idle = Max(1, GetValue(t, "mobileIdleMult", 100)),
                                           !.move = Max(1, GetValue(t, "mobileMoveMult", 100))],
          !.avoidMobilesOnPath     = GetValue(moveDefTable, "avoidMobilesOnPath", TRUE),
          !.allowTerrainCollisions = GetValue(moveDefTable, "allowTerrainCollisions", TRUE),
          !.allowRawMovement       = GetValue(moveDefTable, "allowRawMovement", FALSE),
          !.heatMapping    = GetValue(moveDefTable, "heatMapping", FALSE),
          !.flowMapping    = GetValue(moveDefTable, "flowMapping", TRUE),
          !.heatProduced   = GetValue(moveDefTable, "heatProduced", GAME_SPEED * 2),
          \* slopeMod as a fraction: 4 / (maxSlope + 0.001), or the configured value
          !.slopeMod       = IF "slopeMod" \in DOMAIN moveDefTable
                             THEN [n |-> moveDefTable["slopeMod"], d |-> 1]
                             ELSE DefaultSlopeMod(maxSlope),
          !.followGround   = ground,
          !.terrainClass   = TerrainClassOf(class, ground, minWaterDepth, maxWaterDepth, @),
          !.xsize = fp.xsize, !.zsize = fp.zsize,
          !.xsizeh = fp.xsizeh, !.zsizeh = fp.zsizeh]

\* MoveDef() and the member initialisers; terrainClass0 is terrainClass's initialiser
DefaultMoveDef(terrainClass0) ==
    [name |-> "", speedModClass |-> "Tank", terrainClass |-> terrainClass0,
     xsize |-> 0, xsizeh |-> 0, zsize |-> 0, zsizeh |-> 0,
     depth |-> 0, depthModParams |-> DefaultDepthModParams,
     maxSlope |-> 1000, slopeMod |-> [n |-> 0, d |-> 1], crushStrength |-> 0,
     speedModMults |-> [busy |-> 10, idle |-> 35, move |-> 65, num |-> 0],
     avoidMobilesOnPath |-> TRUE, allowTerrainCollisions |-> TRUE, allowRawMovement |-> FALSE,
     heatMapping |-> TRUE, flowMapping |-> TRUE,
     heatProduced |-> GAME_SPEED * 2, followGround |-> TRUE, isSubmarine |-> FALSE]

\* a plausible slip: the two range tests include their bound
GetDepthModInclusive(p, height) ==
    IF height >= -p.minHeight THEN [n |-> 1, d |-> 1]
    ELSE IF height <= -p.maxHeight THEN [n |-> 0, d |-> 1]
    ELSE LET depth == -height
             scale == Clamp(p.quadraticCoeff * depth * depth + p.linearCoeff * depth
                                + p.constantCoeff, MIN_SCALE, p.maxScale)
         IN  [n |-> 100, d |-> scale]

\* MoveDef::GetDepthMod on depthModParams p; the float returned is n / d
GetDepthMod(p, height) ==
    IF height > -p.minHeight THEN [n |-> 1, d |-> 1]
    ELSE IF height < -p.maxHeight THEN [n |-> 0, d |-> 1]
    ELSE LET depth == -height
             scale == Clamp(p.quadraticCoeff * depth * depth + p.linearCoeff * depth
                                + p.constantCoeff, MIN_SCALE, p.maxScale)
         IN  [n |-> 100, d |-> scale]

----------------------------------------------------------------------------
(* Claims about the object walk of a submersible collider *)

Queries == log.queries

\* every height-map read so far was made at a cell inside the map
ReadsInMap == \A i \in DOMAIN log.reads : ~OffMap(log.reads[i].x, log.reads[i].z)

\* C1: within one object walk of a submersible collider, no two blocking
\* queries carrying the same epoch were made under different underwater
\* states of the virtual collider (a change of the underwater state from one
\* visited cell to the next draws a fresh epoch before the query).
C1_SameEpochSameUnderwater ==
    (IsSubmersible(collider) /\ ReadsInMap) =>
        \A i, j \in DOMAIN Queries :
            Queries[i].epoch = Queries[j].epoch
                => Queries[i].underWater = Queries[j].underWater

\* C2: within one object walk, two consecutively visited cells with the same
\* underwater state are queried under the same epoch, and a walk whose cells
\* all have the collider's own underwater state draws exactly one epoch.
C2_EpochKeptWithoutTransition ==
    /\ \A i \in DOMAIN Queries :
          (ReadsInMap /\ i > 1 /\ Queries[i - 1].underWater = Queries[i].underWater)
              => Queries[i - 1].epoch = Queries[i].epoch
    /\ (pc = "done" /\ Queries # <<>>
          /\ \A i \in DOMAIN Queries :
                Queries[i].underWater = (collider.posY + collider.height < 0))
            => log.draws = 1

\* C3: for a submersible collider, at every blocking query the virtual
\* collider's in-water physical-state bit is set if and only if its pos.y is
\* below 0.
C3_InWaterBitTracksPosY ==
    (IsSubmersible(collider) /\ ReadsInMap) =>
        \A i \in DOMAIN Queries : Queries[i].inWaterBit <=> (Queries[i].posY < 0)

\* C10: no step of a RawSearch call changes the real collider (its position,
\* height and state bits): only the call-local virtual collider changes.
C10_ColliderUnchanged == [][collider' = collider]_vars

\* C10 witness: a finished call that walked a submersible collider over cells
\* of another height and water state than its own, drawing a second epoch.
C10_Witness ==
    /\ pc = "done"
    /\ IsSubmersible(collider)
    /\ log.draws > 1
    /\ \E i \in DOMAIN Queries :
          /\ Queries[i].posY # collider.posY
          /\ (Queries[i].posY < 0) # (collider.posY < 0)
          /\ loc.virtualObject.posY # collider.posY

----------------------------------------------------------------------------
(* Claims about the line walk *)

\* the blocks of the call made the other way round, from endPos to startPos
SwappedStartBlock == StartBlock(in.endPos)
SwappedEndBlock == EndBlock(in.endPos, in.startPos)

NonNegative(pos) == pos.x >= 0 /\ pos.z >= 0

\* C4 as stated: for any two world positions A and B, a RawSearch from A to B
\* in which no cell test fails tests the same set of cells as one from B to A
\* (stated here for positions with non-negative coordinates only).
C4_SymmetricForAllPositions ==
    (PassedTerrainWalk /\ NonNegative(in.startPos) /\ NonNegative(in.endPos))
        => TerrainCells = WalkCells(SwappedStartBlock, SwappedEndBlock)

\* C4 amended: the two walks test the same set of cells whenever each call's
\* end block is the other call's start block (the bias applied to the end
\* position moves neither end position into another cell).
C4_SymmetricForSwappedBlocks ==
    (/\ PassedTerrainWalk
     /\ SwappedStartBlock = walk.endBlock
     /\ SwappedEndBlock = walk.startBlock)
        => TerrainCells = WalkCells(SwappedStartBlock, SwappedEndBlock)

\* C4 witness: a passed walk over at least four cells, off both axes, whose
\* swapped call starts and ends in the same blocks.
C4_Witness ==
    /\ PassedTerrainWalk
    /\ SwappedStartBlock = walk.endBlock
    /\ SwappedEndBlock = walk.startBlock
    /\ walk.diffBlk.x >= 2 /\ walk.diffBlk.y >= 1
    /\ walk.diffBlk.x # walk.diffBlk.y
    /\ Cardinality(TerrainCells) >= 4

----------------------------------------------------------------------------
(* Claims relating RawSearch to the single-cell queries *)

ObjectsOnly == in.testObjects /\ ~in.testTerrain

BoxInMap(box) ==
    /\ 0 <= box.xmin /\ box.xmax <= MapX - 1
    /\ 0 <= box.zmin /\ box.zmax <= MapY - 1

\* C5 as stated: whenever the cell of startPos equals the cell of endPos,
\* RawSearch's result equals that of TestMoveSquareRange over that position
\* with the same flags and, for an objects-only query, that of
\* TestMovePositionForObjects at that position.
C5_SameCellEquivalence ==
    (pc = "allDone" /\ StartBlock(in.startPos) = StartBlock(in.endPos))
        => /\ out.result = rq.retTestMove
           /\ ObjectsOnly => out.result = rq.posObjects

\* C5 amended: the results agree whenever RawSearch's start block equals its
\* end block, the box the single-cell query covers lies inside the map, the
\* collider is not submersible and, when terrain is tested, the speed
\* threshold is 0 and the footprint is the cell alone (centerOnly, or a 1x1
\* footprint); TestMovePositionForObjects agrees with an objects-only
\* RawSearch that is not centerOnly (or has a 1x1 footprint).
C5_SameCellEquivalenceAmended ==
    (/\ pc = "allDone"
     /\ walk.startBlock = walk.endBlock
     /\ ~IsSubmersible(collider))
        => /\ (/\ BoxInMap(rq.box)
               /\ in.testTerrain =>
                     /\ in.speedModThreshold = 0
                     /\ in.centerOnly \/ (md.xsizeh = 0 /\ md.zsizeh = 0))
                 => out.result = rq.retTestMove
           /\ (/\ ObjectsOnly
               /\ BoxInMap(PositionBox(md, in.startPos))
               /\ ~in.centerOnly \/ (md.xsizeh = 0 /\ md.zsizeh = 0))
                 => out.result = rq.posObjects

\* C5 witness: a same-cell RawSearch testing terrain and objects inside the
\* map that failed on a structure, as did the single-cell range query.
C5_Witness ==
    /\ pc = "allDone"
    /\ walk.startBlock = walk.endBlock
    /\ ~IsSubmersible(collider)
    /\ BoxInMap(rq.box)
    /\ in.testTerrain /\ in.testObjects /\ in.speedModThreshold = 0 /\ in.centerOnly
    /\ ~out.result /\ ~rq.retTestMove
    /\ Len(log.queries) > 0 /\ Len(rq.sampled) > 0

----------------------------------------------------------------------------
(* Constructing profiles from configuration tables, and reading their       *)
(* depth modifier.                                                           *)

WaterDepth == 5
MaxFootprint == 3
MaxHeightCfg == 3

TerrainClasses == {"Land", "Water", "Mixed"}

\* the key is absent, or holds one of vals
Opt(key, vals) == {EmptyMap} \cup {key :> v : v \in vals}

Tables(A, B) == {a @@ b : a \in A, b \in B}

ClassTables ==
    Opt("name", {"ArmBoat", "CORSHIP", "hovertank", "armtank", "armkbot"})
        \cup Tables({"name" :> "armtank"}, Opt("speedModClass", {-2, 0, 1, 2, 3, 4}))

WaterTables ==
    Tables(ClassTables,
           Tables(Opt("minWaterDepth", {-WaterDepth, 0, WaterDepth}),
                  Opt("maxWaterDepth", {-WaterDepth, 0, WaterDepth})))

FootprintTables ==
    Tables({"name" :> "armkbot"},
           Tables(Opt("footprintX", -1 .. MaxFootprint), Opt("footprintZ", -1 .. MaxFootprint)))

DepthModTables ==
    Tables(Tables(Opt("minHeight", {-1, 1, 2}), Opt("maxHeight", {0, 1, MaxHeightCfg})),
           Tables(Tables(Opt("maxScale", {0, 150}), Opt("quadraticCoeff", {-50, 50})),
                  Tables(Opt("linearCoeff", {50}), Opt("constantCoeff", {-100, 0, 200}))))

DepthTables ==
    Tables(Opt("name", {"armtank", "hovertank", "ArmBoat"}),
           Tables(Opt("depthMod", {20}), {"depthModParams" :> t : t \in DepthModTables}))

SlopeTables ==
    Tables(ClassTables,
           Tables(Opt("maxSlope", {-10, 0, 15, 30, 40, 60, 90}), Opt("slopeMod", {2})))

DepthHeights == -(MaxHeightCfg + 1) .. 1

InitCtor ==
    /\ pc = "new"
    /\ \/ /\ in \in {[table |-> t] : t \in WaterTables}
          /\ md \in {DefaultMoveDef(c) : c \in TerrainClasses}
       \/ /\ in \in {[table |-> t] : t \in FootprintTables \cup DepthTables \cup SlopeTables}
          /\ md = DefaultMoveDef("Mixed")
    /\ collider = NewSolidObject
    /\ walk = NoWalk
    /\ loc = NoLocals
    /\ env = [mtTempNum |-> [t \in Threads |-> 1],
              speed |-> EmptyMap, height |-> EmptyMap, block |-> EmptyMap]
    /\ log = NoLog
    /\ out = NoOut
    /\ rq = NoRange

\* moveDefs[mdCounter] = {moveDefTable}
ConstructMoveDef ==
    /\ pc = "new"
    /\ md' = Construct(md, in.table)
    /\ pc' = "built"
    /\ UNCHANGED <<in, collider, walk, loc, env, log, out, rq>>

\* a caller reads the profile's depth modifier at some height
CallGetDepthMod ==
    /\ pc \in {"built", "depth"}
    /\ \E height \in DepthHeights :
          out' = [set |-> TRUE, height |-> height,
                  depthMod |-> GetDepthMod(md.depthModParams, height),
                  \* the call before this one
                  prev |-> IF out.set
                           THEN [set |-> TRUE, height |-> out.height, depthMod |-> out.depthMod]
                           ELSE [set |-> FALSE]]
    /\ pc' = "depth"
    /\ UNCHANGED <<in, md, collider, walk, loc, env, log, rq>>

NextCtor ==
    \/ ConstructMoveDef
    \/ CallGetDepthMod

SpecCtor == InitCtor /\ [][NextCtor]_vars

----------------------------------------------------------------------------
(* MoveDef::CalcCheckSum over the bytes from speedModClass to flowMapping.   *)

SpanLen == 3
MaxByte == 3

RECURSIVE BitXor(_, _)
BitXor(a, b) ==
    IF a = 0 THEN b
    ELSE IF b = 0 THEN a
    ELSE (((a % 2) + (b % 2)) % 2) + 2 * BitXor(a \div 2, b \div 2)

\* a plausible slip: the byte's offset is shifted the other way
CheckSumTermShiftedRight(offset, byte) == (offset \div 2^8) * byte

\* (((byte + 1) - minByte) << 8) * (*byte)
CheckSumTerm(offset, byte) == (offset * 2^8) * byte

\* the loop of lines 567-569 from offset i on; a term stays below 2^32 while the
\* span is shorter than 2^16 bytes, so the unsigned sum never wraps
RECURSIVE CheckSumFrom(_, _, _)
CheckSumFrom(bytes, i, sum) ==
    IF i > Len(bytes) THEN sum
    ELSE CheckSumFrom(bytes, i + 1, BitXor(sum, CheckSumTerm(i, bytes[i])))

CalcCheckSum(bytes) == CheckSumFrom(bytes, 1, 0)

Spans == [1 .. SpanLen -> 0 .. MaxByte]

InitSum ==
    /\ pc = "bytes"
    /\ in \in {[a |-> a, b |-> b] : a \in Spans, b \in Spans}
    /\ md = DefaultMoveDef("Mixed")
    /\ collider = NewSolidObject
    /\ walk = NoWalk
    /\ loc = NoLocals
    /\ env = [mtTempNum |-> [t \in Threads |-> 1],
              speed |-> EmptyMap, height |-> EmptyMap, block |-> EmptyMap]
    /\ log = NoLog
    /\ out = NoOut
    /\ rq = NoRange

\* crc << moveDefs[mdCounter++].CalcCheckSum(), for two profiles
CallCalcCheckSum ==
    /\ pc = "bytes"
    /\ out' = [set |-> TRUE, a |-> CalcCheckSum(in.a), b |-> CalcCheckSum(in.b)]
    /\ pc' = "summed"
    /\ UNCHANGED <<in, md, collider, walk, loc, env, log, rq>>

NextSum == CallCalcCheckSum

SpecSum == InitSum /\ [][NextSum]_vars

----------------------------------------------------------------------------
(* Claims about GetDepthMod, the constructor and the checksum *)

IsOne(f) == f.n = f.d
IsZero(f) == f.n = 0

PolyScale(p, depth) ==
    Clamp(p.quadraticCoeff * depth * depth + p.linearCoeff * depth + p.constantCoeff,
          MIN_SCALE, p.maxScale)

\* C6 as stated: GetDepthMod returns exactly 1.0 at h = -minHeight and exactly
\* 0.0 at h = -maxHeight, whatever the coefficients and maxScale are.
C6_ExactAtBounds ==
    pc = "depth" =>
        /\ out.height = -md.depthModParams.minHeight => IsOne(out.depthMod)
        /\ out.height = -md.depthModParams.maxHeight => IsZero(out.depthMod)

\* C6 amended: GetDepthMod returns exactly 1.0 for every h above -minHeight and
\* exactly 0.0 for every h below -maxHeight (and not above -minHeight); from
\* -maxHeight up to -minHeight, both included, it returns
\* 1 / clamp(a*d*d + b*d + c, 0.01, maxScale) with d = -h, which is never 0.0.
C6_ExactBeyondBounds ==
    pc = "depth" =>
        LET p == md.depthModParams
            h == out.height
        IN  /\ h > -p.minHeight => IsOne(out.depthMod)
            /\ (h <= -p.minHeight /\ h < -p.maxHeight) => IsZero(out.depthMod)
            /\ (h <= -p.minHeight /\ h >= -p.maxHeight) =>
                  /\ out.depthMod.n > 0
                  /\ out.depthMod.n * PolyScale(p, -h) = 100 * out.depthMod.d

\* a ground profile read at exactly -minHeight and at exactly -maxHeight, with a
\* depth modifier that is neither 1.0 nor 0.0
C6_Witness ==
    /\ pc = "depth"
    /\ md.followGround
    /\ out.height \in {-md.depthModParams.minHeight, -md.depthModParams.maxHeight}
    /\ md.depthModParams.minHeight < md.depthModParams.maxHeight
    /\ ~IsOne(out.depthMod)
    /\ ~IsZero(out.depthMod)

IsShipScenario ==
    /\ pc = "built"
    /\ md.speedModClass = "Ship"
    /\ "minWaterDepth" \in DOMAIN in.table
    /\ "maxWaterDepth" \in DOMAIN in.table
    /\ in.table["minWaterDepth"] = WaterDepth
    /\ in.table["maxWaterDepth"] = -WaterDepth

\* C7 as stated: a Ship profile configured with minWaterDepth=5 and
\* maxWaterDepth=-5 is constructed with terrainClass = Mixed.
C7_ShipScenarioMixed == IsShipScenario => md.terrainClass = "Mixed"

\* C7 amended: a Ship profile configured with minWaterDepth=5 and
\* maxWaterDepth=-5 is constructed with terrainClass = Water; a Ship is Water
\* whenever its minWaterDepth is above 0 and Mixed whenever it is below 0,
\* whatever its maxWaterDepth.
C7_ShipClassFollowsMinWaterDepth ==
    (pc = "built" /\ md.speedModClass = "Ship") =>
        LET minWaterDepth == GetValue(in.table, "minWaterDepth", DEFAULT_MIN_WATER_DEPTH)
        IN  /\ minWaterDepth > 0 => md.terrainClass = "Water"
            /\ minWaterDepth < 0 => md.terrainClass = "Mixed"

C7_Witness == IsShipScenario /\ md.terrainClass = "Water"

\* C9: every constructed profile has odd xsize and zsize of at least 1, an even
\* scaled footprint being reduced by exactly one (footprintX=2 gives xsize=3),
\* and xsize = 2*xsizeh + 1, zsize = 2*zsizeh + 1, whatever footprintX and
\* footprintZ are configured (even, odd, zero, negative or absent).
C9_FootprintOdd ==
    pc = "built" =>
        LET x       == Max(1, GetValue(in.table, "footprintX", 1))
            scaledX == x * SPRING_FOOTPRINT_SCALE
            scaledZ == Max(1, GetValue(in.table, "footprintZ", x)) * SPRING_FOOTPRINT_SCALE
        IN  /\ md.xsize % 2 = 1 /\ md.zsize % 2 = 1
            /\ md.xsize >= 1 /\ md.zsize >= 1
            /\ md.xsize = IF scaledX % 2 = 0 THEN scaledX - 1 ELSE scaledX
            /\ md.zsize = IF scaledZ % 2 = 0 THEN scaledZ - 1 ELSE scaledZ
            /\ md.xsize = 2 * md.xsizeh + 1
            /\ md.zsize = 2 * md.zsizeh + 1
            /\ GetValue(in.table, "footprintX", 1) = 2 => md.xsize = 3

\* footprintX = 2 with a negative footprintZ: xsize is 3 and zsize is 1
C9_Witness ==
    /\ pc = "built"
    /\ "footprintX" \in DOMAIN in.table
    /\ "footprintZ" \in DOMAIN in.table
    /\ in.table["footprintX"] = 2
    /\ in.table["footprintZ"] < 0
    /\ md.xsize = 3
    /\ md.zsize = 1

DifferingBytes == {i \in 1 .. SpanLen : in.a[i] # in.b[i]}

\* C8 as stated: two profiles that differ in at least one byte of the
\* checksummed span have different digests.
C8_DifferentBytesDifferentSum ==
    (pc = "summed" /\ DifferingBytes # {}) => out.a # out.b

\* C8 amended: two profiles that differ in exactly one byte of the checksummed
\* span have different digests, and two profiles with the same bytes have the
\* same digest; profiles that differ in several bytes can share a digest.
C8_OneByteDifferentSum ==
    pc = "summed" =>
        /\ Cardinality(DifferingBytes) = 1 => out.a # out.b
        /\ DifferingBytes = {} => out.a = out.b

\* two profiles that differ in their last byte only, with different digests
C8_Witness ==
    /\ pc = "summed"
    /\ DifferingBytes = {SpanLen}
    /\ out.a # out.b
    /\ out.a # 0

----------------------------------------------------------------------------
(* DoRawSearch calls running concurrently, one per thread.  Each call has    *)
(* its own arguments, collider and locals (pc, in, collider, walk, loc, log  *)
(* and out are functions of the thread); terrain, blocking grid and epoch    *)
(* counters are shared.  A step is one cell test of one call.                *)

\* even threads walk one way, odd threads the other way over the same cells
ParPair(t) ==
    IF t % 2 = 0 THEN <<CellMid(0, 0), CellMid(2, 0)>> ELSE <<CellMid(2, 0), CellMid(0, 0)>>

ParFlags ==
    { [testTerrain |-> FALSE, testObjects |-> TRUE, speedModThreshold |-> 0],
      [testTerrain |-> TRUE,  testObjects |-> TRUE, speedModThreshold |-> 0] }

ParArgs(t) ==
    { [startPos |-> ParPair(t)[1], endPos |-> ParPair(t)[2],
       testTerrain |-> f.testTerrain, testObjects |-> f.testObjects,
       centerOnly |-> TRUE, thread |-> t,
       speedModThreshold |-> f.speedModThreshold] : f \in ParFlags }

ParColliders ==
    { c \in Colliders : c.posY = -MaxDepth /\ c.moveDef.isSubmarine }

InitPar ==
    /\ pc = [t \in Threads |-> "call"]
    /\ in \in { f \in [Threads -> UNION {ParArgs(t) : t \in Threads}] :
                   \A t \in Threads : f[t] \in ParArgs(t) }
    /\ md \in MoveDefs
    /\ collider \in [Threads -> ParColliders]
    /\ walk = [t \in Threads |-> NoWalk]
    /\ loc = [t \in Threads |-> NoLocals]
    /\ env = [mtTempNum |-> [t \in Threads |-> 1],
              speed |-> EmptyMap, height |-> EmptyMap, block |-> EmptyMap]
    /\ log = [t \in Threads |-> NoLog]
    /\ out = [t \in Threads |-> NoOut]
    /\ rq = NoRange

ParEnter(t) ==
    /\ pc[t] = "call"
    /\ walk' = [walk EXCEPT ![t] =
                   WalkInit(StartBlock(in[t].startPos), EndBlock(in[t].startPos, in[t].endPos))]
    /\ loc' = [loc EXCEPT ![t] = NoLocals]
    /\ pc' = [pc EXCEPT ![t] = IF in[t].testTerrain THEN "terrain" ELSE "between"]
    /\ UNCHANGED <<in, md, collider, env, log, out, rq>>

ParTerrainTest(t) ==
    /\ pc[t] = "terrain"
    /\ LET b == TestBlk(walk[t]) IN
       \E s \in (IF OffMap(b.x, b.y) THEN {0} ELSE SpeedChoices(env, b.x, b.y)) :
          LET r == TerrainCell(loc[t].minSpeedMod, in[t].speedModThreshold, b.x, b.y, s)
              w == WalkAfterTest(walk[t], r.ok)
          IN  /\ walk' = [walk EXCEPT ![t] = w]
              /\ loc' = [loc EXCEPT ![t].minSpeedMod = r.minSpeedMod,
                                    ![t].retTestMove = IF w.running THEN @ ELSE w.result]
              /\ env' = IF r.sampled
                        THEN [env EXCEPT !.speed = Remember(@, <<b.x, b.y>>, s)]
                        ELSE env
              /\ log' = [log EXCEPT ![t].terrain =
                            Append(@, [x |-> b.x, z |-> b.y, sampled |-> r.sampled,
                                       speedMod |-> s, ok |-> r.ok])]
              /\ pc' = [pc EXCEPT ![t] = IF w.running THEN "terrain" ELSE "between"]
    /\ UNCHANGED <<in, md, collider, out, rq>>

ParObjectsBegin(t) ==
    /\ pc[t] = "between"
    /\ ObjectsWanted(in[t].testObjects, loc[t].retTestMove)
    /\ loc' = [loc EXCEPT ![t] =
                  ObjectsSetup(collider[t], loc[t], GetMtTempNum(env, in[t].thread))]
    /\ env' = AfterGetMtTempNum(env, in[t].thread)
    /\ walk' = [walk EXCEPT ![t] =
                   WalkInit(StartBlock(in[t].startPos), EndBlock(in[t].startPos, in[t].endPos))]
    /\ log' = [log EXCEPT ![t].draws = @ + 1]
    /\ pc' = [pc EXCEPT ![t] = "objects"]
    /\ UNCHANGED <<in, md, collider, out, rq>>

ParObjectsSkip(t) ==
    /\ pc[t] = "between"
    /\ ~ObjectsWanted(in[t].testObjects, loc[t].retTestMove)
    /\ pc' = [pc EXCEPT ![t] = "ret"]
    /\ UNCHANGED <<in, md, collider, walk, loc, env, log, out, rq>>

ParObjectTest(t) ==
    /\ pc[t] = "objects"
    /\ LET b   == TestBlk(walk[t])
           idx == b.y * MapX + b.x
           rg  == QueryRange(md, in[t].centerOnly, b.x, b.y)
       IN
       \E h \in (IF loc[t].isSubmersible THEN HeightChoices(env, idx) ELSE {0}) :
          LET u   == SubmersibleUpdate(collider[t], loc[t], h, GetMtTempNum(env, in[t].thread))
              e1  == IF u.drew THEN AfterGetMtTempNum(env, in[t].thread) ELSE env
              e2  == IF loc[t].isSubmersible
                     THEN [e1 EXCEPT !.height = RememberHeight(@, idx, h)]
                     ELSE e1
              vo  == u.loc.virtualObject
              key == BlockKey(rg.xmin, rg.xmax, rg.zmin, rg.zmax, vo)
          IN
          \E blockBits \in BlockChoices(env, key) :
             LET ok == ~BlocksStructure(blockBits)
                 w  == WalkAfterTest(walk[t], ok)
             IN  /\ collider' = [collider EXCEPT ![t] = u.collider]
                 /\ walk' = [walk EXCEPT ![t] = w]
                 /\ loc' = [loc EXCEPT ![t] =
                               [u.loc EXCEPT !.maxBlockBit = MaxBlockBitAfter(@, blockBits),
                                             !.retTestMove = IF w.running THEN @ ELSE w.result]]
                 /\ env' = [e2 EXCEPT !.block = Remember(@, key, blockBits)]
                 /\ log' = [log EXCEPT
                       ![t].draws = IF u.drew THEN @ + 1 ELSE @,
                       ![t].queries = Append(@,
                           [x |-> b.x, z |-> b.y, range |-> rg,
                            epoch |-> u.loc.tempNum,
                            posY |-> vo.posY,
                            underWater |-> (vo.posY + vo.height < 0),
                            inWaterBit |-> HasBit(vo.physicalState, PSTATE_BIT_INWATER),
                            blockBits |-> blockBits])]
                 /\ pc' = [pc EXCEPT ![t] = IF w.running THEN "objects" ELSE "ret"]
    /\ UNCHANGED <<in, md, out, rq>>

ParReturn(t) ==
    /\ pc[t] = "ret"
    /\ out' = [out EXCEPT ![t] =
                  [set |-> TRUE, result |-> loc[t].retTestMove,
                   minSpeedMod |-> loc[t].minSpeedMod, maxBlockBit |-> loc[t].maxBlockBit]]
    /\ pc' = [pc EXCEPT ![t] = "done"]
    /\ UNCHANGED <<in, md, collider, walk, loc, env, log, rq>>

ThreadStep(t) ==
    \/ ParEnter(t)
    \/ ParTerrainTest(t)
    \/ ParObjectsBegin(t)
    \/ ParObjectsSkip(t)
    \/ ParObjectTest(t)
    \/ ParReturn(t)

NextPar == \E t \in Threads : ThreadStep(t)

SpecPar == InitPar /\ [][NextPar]_vars

----------------------------------------------------------------------------
(* A DoRawSearch call run alone on terrain e.speed, height map e.height and *)
(* blocking answers e.block                                                 *)

RECURSIVE AloneTerrainFrom(_, _, _, _)
AloneTerrainFrom(w, minSpeedMod, a, e) ==
    LET b == TestBlk(w)
        s == IF OffMap(b.x, b.y) THEN 0 ELSE e.speed[<<b.x, b.y>>]
        r == TerrainCell(minSpeedMod, a.speedModThreshold, b.x, b.y, s)
        n == WalkAfterTest(w, r.ok)
    IN  IF n.running THEN AloneTerrainFrom(n, r.minSpeedMod, a, e)
        ELSE [result |-> n.result, minSpeedMod |-> r.minSpeedMod]

RECURSIVE AloneObjectsFrom(_, _, _, _, _, _)
AloneObjectsFrom(w, l, c, m, a, e) ==
    LET b   == TestBlk(w)
        idx == b.y * MapX + b.x
        rg  == QueryRange(m, a.centerOnly, b.x, b.y)
        h   == IF l.isSubmersible THEN e.height[idx] ELSE 0
        u   == SubmersibleUpdate(c, l, h, l.tempNum + 1)
        key == BlockKey(rg.xmin, rg.xmax, rg.zmin, rg.zmax, u.loc.virtualObject)
        blockBits == e.block[key]
        n   == WalkAfterTest(w, ~BlocksStructure(blockBits))
    IN  IF n.running THEN AloneObjectsFrom(n, u.loc, c, m, a, e)
        ELSE [result |-> n.result, maxBlockBit |-> blockBits]

RawSearchAlone(a, m, c, e) ==
    LET w0 == WalkInit(StartBlock(a.startPos), EndBlock(a.startPos, a.endPos))
        t  == IF a.testTerrain THEN AloneTerrainFrom(w0, FLT_MAX, a, e)
              ELSE [result |-> TRUE, minSpeedMod |-> FLT_MAX]
        o  == IF a.testObjects /\ t.result
              THEN AloneObjectsFrom(w0, ObjectsSetup(c, NoLocals, 1), c, m, a, e)
              ELSE [result |-> t.result, maxBlockBit |-> BLOCK_NONE]
    IN  [set |-> TRUE, result |-> o.result,
         minSpeedMod |-> t.minSpeedMod, maxBlockBit |-> o.maxBlockBit]

----------------------------------------------------------------------------
(* Claims about RawSearch's terrain test *)

LastTerrain == log.terrain[Len(log.terrain)]

\* C12: a terrain test of a cell outside the map passes, samples nothing and
\* leaves the running minimum speed modifier and the walk's verdict as they
\* were, so cells off the map never fail a walk.
C12_OffMapCellPasses ==
    [][(pc = "terrain" /\ OffMap(TestBlk(walk).x, TestBlk(walk).y)) =>
          /\ loc'.minSpeedMod = loc.minSpeedMod
          /\ loc'.retTestMove = loc.retTestMove
          /\ walk'.result
          /\ env'.speed = env.speed
          /\ Len(log'.terrain) = Len(log.terrain) + 1
          /\ log'.terrain[Len(log'.terrain)].ok
          /\ ~log'.terrain[Len(log'.terrain)].sampled]_vars

\* a terrain walk under the highest threshold that tested a cell off the map
\* and a cell on it, and passed
C12_Witness ==
    /\ pc = "between"
    /\ in.testTerrain
    /\ in.speedModThreshold = MaxThreshold
    /\ loc.retTestMove
    /\ \E i \in DOMAIN log.terrain : OffMap(log.terrain[i].x, log.terrain[i].z)
    /\ \E i \in DOMAIN log.terrain : log.terrain[i].sampled

SampledSpeedMods == { log.terrain[i].speedMod : i \in { j \in DOMAIN log.terrain : log.terrain[j].sampled } }

MinOfSampled ==
    IF SampledSpeedMods = {} THEN FLT_MAX
    ELSE CHOOSE m \in SampledSpeedMods : \A x \in SampledSpeedMods : m <= x

\* C13: when the terrain walk is over, it has failed if and only if some
\* tested cell on the map has a speed modifier less than or equal to the
\* threshold, minSpeedMod is the minimum of the speed modifiers of the cells on
\* the map tested up to and including the failing one, and the walk passed
\* exactly when minSpeedMod is strictly greater than the threshold.
C13_TerrainFailsAtOrBelowThreshold ==
    (pc = "between" /\ in.testTerrain) =>
        /\ ~loc.retTestMove <=> (\E m \in SampledSpeedMods : m <= in.speedModThreshold)
        /\ ~loc.retTestMove => LastTerrain.sampled /\ LastTerrain.speedMod <= in.speedModThreshold
        /\ loc.minSpeedMod = MinOfSampled
        /\ loc.retTestMove <=> loc.minSpeedMod > in.speedModThreshold

\* a terrain walk that passed a cell above the threshold and then failed on a
\* cell whose modifier equals the threshold
C13_Witness ==
    /\ pc = "between"
    /\ in.testTerrain
    /\ in.speedModThreshold = MaxThreshold
    /\ ~loc.retTestMove
    /\ Len(log.terrain) >= 2
    /\ LastTerrain.speedMod = in.speedModThreshold
    /\ loc.minSpeedMod = in.speedModThreshold
    /\ \E i \in DOMAIN log.terrain : log.terrain[i].sampled /\ log.terrain[i].speedMod > in.speedModThreshold

----------------------------------------------------------------------------
(* Claims about walkPath *)

\* the cells tested in iteration i of the terrain walk
FwdTested(i) == log.terrain[2 * i - 1]
RevTested(i) == log.terrain[2 * i]

TestedAdjacent(i) ==
    /\ Abs(FwdTested(i).x - RevTested(i).x) <= 1
    /\ Abs(FwdTested(i).z - RevTested(i).z) <= 1

TestedCoincide(i) ==
    FwdTested(i).x = RevTested(i).x /\ FwdTested(i).z = RevTested(i).z

TimesTested(x, z) ==
    Cardinality({ i \in DOMAIN log.terrain : log.terrain[i].x = x /\ log.terrain[i].z = z })

\* C14: a walk in which no cell test fails stops at the first iteration whose
\* two cursors are within one cell of each other on both axes, never with the
\* cursors further apart because the step counter ran out; when the cursors
\* coincide there the shared cell is tested twice, and no other cell is tested
\* more than once.
C14_WalkStopsWhenAdjacent ==
    PassedTerrainWalk =>
        LET n == Len(log.terrain) \div 2
        IN  /\ Len(log.terrain) = 2 * n /\ n >= 1
            /\ TestedAdjacent(n)
            /\ \A i \in 1 .. n - 1 : ~TestedAdjacent(i)
            /\ TestedCoincide(n) => TimesTested(FwdTested(n).x, FwdTested(n).z) = 2
            /\ \A i \in DOMAIN log.terrain :
                  (log.terrain[i].x # FwdTested(n).x \/ log.terrain[i].z # FwdTested(n).z
                      \/ ~TestedCoincide(n))
                    => TimesTested(log.terrain[i].x, log.terrain[i].z) = 1

\* a passed walk of three iterations or more that ended with both cursors on
\* one cell
C14_Witness ==
    /\ PassedTerrainWalk
    /\ Len(log.terrain) >= 6
    /\ TestedCoincide(Len(log.terrain) \div 2)
    /\ walk.diffBlk.x > 0 /\ walk.diffBlk.y > 0

----------------------------------------------------------------------------
(* Claims about RawSearch's outputs *)

\* C15: the maxBlockBit RawSearch reports is the bitmask the last blocking
\* query of the walk returned, and BLOCK_NONE when no query was issued.
C15_MaxBlockBitIsLastQuery ==
    pc = "done" =>
        out.maxBlockBit = IF Len(log.queries) = 0 THEN BLOCK_NONE
                          ELSE log.queries[Len(log.queries)].blockBits

\* a finished call whose last query returned BLOCK_NONE after an earlier one
\* returned the MOBILE bit: the OR and the maximum of the masks are not what
\* is reported
C15_Witness ==
    /\ pc = "done"
    /\ Len(log.queries) >= 2
    /\ log.queries[Len(log.queries)].blockBits = BLOCK_NONE
    /\ \E i \in DOMAIN log.queries : log.queries[i].blockBits = BLOCK_MOBILE
    /\ out.maxBlockBit = BLOCK_NONE

----------------------------------------------------------------------------
(* Claims about the end-position bias *)

OnBoundary(c) == c % Cell = 0

\* +1 when the walk travels up the axis from a to b, -1 when it travels down
Travel(a, b) == IF a < b THEN 1 ELSE -1

\* C16 as stated: an end coordinate on a cell boundary that differs from the
\* start coordinate is shifted by one world unit in the direction of travel
\* before it is converted to the end cell (stated for positions with
\* non-negative coordinates).
C16_BiasInTravelDirection ==
    (pc # "call" /\ NonNegative(in.startPos) /\ NonNegative(in.endPos)) =>
        /\ (OnBoundary(in.endPos.x) /\ in.endPos.x # in.startPos.x) =>
              walk.endBlock.x =
                  Trunc(in.endPos.x + Travel(in.startPos.x, in.endPos.x) * PosDen, Cell)
        /\ (OnBoundary(in.endPos.z) /\ in.endPos.z # in.startPos.z) =>
              walk.endBlock.y =
                  Trunc(in.endPos.z + Travel(in.startPos.z, in.endPos.z) * PosDen, Cell)

\* C16 amended: an end coordinate that differs from the start coordinate, on a
\* cell boundary or not, is shifted by one world unit against the direction of
\* travel (back toward the start) before it is converted to the end cell.
C16_BiasAgainstTravelDirection ==
    pc # "call" =>
        /\ in.endPos.x # in.startPos.x =>
              walk.endBlock.x =
                  Trunc(in.endPos.x - Travel(in.startPos.x, in.endPos.x) * PosDen, Cell)
        /\ in.endPos.z # in.startPos.z =>
              walk.endBlock.y =
                  Trunc(in.endPos.z - Travel(in.startPos.z, in.endPos.z) * PosDen, Cell)

\* an end position exactly on the boundary between two cells, reached from
\* below: the end cell is the one below the boundary
C16_Witness ==
    /\ pc = "done"
    /\ in.endPos.x > 0
    /\ OnBoundary(in.endPos.x)
    /\ in.startPos.x < in.endPos.x
    /\ walk.endBlock.x = (in.endPos.x \div Cell) - 1

\* C17: when startPos and endPos have the same coordinate on an axis, the
\* start cell and the end cell both have the index of that coordinate's cell
\* on that axis (no bias), and so has every cell the walk tests.
C17_NoBiasOnSharedCoordinate ==
    pc # "call" =>
        /\ in.startPos.x = in.endPos.x =>
              /\ walk.startBlock.x = Trunc(in.startPos.x, Cell)
              /\ walk.endBlock.x = Trunc(in.startPos.x, Cell)
              /\ \A i \in DOMAIN log.terrain : log.terrain[i].x = Trunc(in.startPos.x, Cell)
        /\ in.startPos.z = in.endPos.z =>
              /\ walk.startBlock.y = Trunc(in.startPos.z, Cell)
              /\ walk.endBlock.y = Trunc(in.startPos.z, Cell)
              /\ \A i \in DOMAIN log.terrain : log.terrain[i].z = Trunc(in.startPos.z, Cell)

\* a finished walk of several cells along the z axis, whose shared x
\* coordinate is within one world unit of a cell boundary
C17_Witness ==
    /\ pc = "done"
    /\ in.startPos.x = in.endPos.x
    /\ in.startPos.x = -Cell - 1
    /\ walk.diffBlk.y >= 2
    /\ Len(log.terrain) >= 4
    /\ \A i \in DOMAIN log.terrain : log.terrain[i].x = -1

----------------------------------------------------------------------------
(* Claims about TestMoveSquareRange and TestMovePositionForObjects *)

HalfX == IF in.centerOnly THEN 0 ELSE md.xsizeh
HalfZ == IF in.centerOnly THEN 0 ELSE md.zsizeh

\* the box of the call, expanded by the half-footprint unless centerOnly
ExpandedBox ==
    [xmin |-> Trunc(RangeMins(in).x, Cell) - HalfX, xmax |-> Trunc(RangeMaxs(in).x, Cell) + HalfX,
     zmin |-> Trunc(RangeMins(in).z, Cell) - HalfZ, zmax |-> Trunc(RangeMaxs(in).z, Cell) + HalfZ]

BoxWidth == ExpandedBox.xmax - ExpandedBox.xmin + 1
BoxCells == BoxWidth * (ExpandedBox.zmax - ExpandedBox.zmin + 1)

\* the k-th cell of the expanded box, row by row
RowMajorCell(k) ==
    [x |-> ExpandedBox.xmin + ((k - 1) % BoxWidth),
     z |-> ExpandedBox.zmin + ((k - 1) \div BoxWidth)]

AllSampledPass == \A k \in DOMAIN rq.sampled : rq.sampled[k].speedMod > 0

\* what C18 says of a finished TestMoveSquareRange call, apart from whether
\* it samples at all
RangeQueryShape ==
    LET n == Len(rq.sampled)
    IN  /\ n <= BoxCells
        /\ \A k \in 1 .. n : /\ rq.sampled[k].x = RowMajorCell(k).x
                             /\ rq.sampled[k].z = RowMajorCell(k).z
        /\ \A k \in 1 .. n - 1 : rq.sampled[k].speedMod > 0
        /\ (n > 0 /\ n < BoxCells) => rq.sampled[n].speedMod <= 0
        /\ Len(rq.queries) = IF in.testObjects /\ AllSampledPass THEN 1 ELSE 0
        /\ Len(rq.queries) = 1 => rq.queries[1].range = ExpandedBox
        /\ rq.retTestMove <=>
              /\ AllSampledPass
              /\ Len(rq.queries) = 1 => ~HasBit(rq.queries[1].blockBits, BLOCK_STRUCTURE)

\* C18 as stated: TestMoveSquareRange samples the cells of the expanded box in
\* row-major order up to the first cell whose speed modifier is not greater
\* than 0, issues one blocking query over the expanded box only when
\* testObjects is set and no sampled cell failed, and returns true if and only
\* if every sampled cell passed and the query, if issued, has the STRUCTURE
\* bit clear.
C18_RangeQuerySamplesBox ==
    pc = "rangeDone" => (Len(rq.sampled) >= 1 /\ RangeQueryShape)

\* C18 amended: with testTerrain set, TestMoveSquareRange samples the cells of
\* the expanded box in row-major order up to the first cell whose speed
\* modifier is not greater than 0; with testTerrain clear it samples no cell.
\* It issues one blocking query over the expanded box exactly when testObjects
\* is set and no sampled cell failed, and returns true if and only if every
\* sampled cell passed and the query, if issued, has the STRUCTURE bit clear.
C18_RangeQuerySamplesBoxIfTerrain ==
    pc = "rangeDone" =>
        /\ in.testTerrain => Len(rq.sampled) >= 1
        /\ ~in.testTerrain => Len(rq.sampled) = 0
        /\ RangeQueryShape

\* a finished call over a box of two rows that sampled into the second row,
\* stopped there before the end of the box, and issued no query
C18_Witness ==
    /\ pc = "rangeDone"
    /\ in.testTerrain /\ in.testObjects
    /\ ExpandedBox.zmax > ExpandedBox.zmin
    /\ Len(rq.sampled) > BoxWidth
    /\ Len(rq.sampled) < BoxCells
    /\ ~rq.retTestMove
    /\ Len(rq.queries) = 0

\* C19: TestMovePositionForObjects issues exactly one blocking query, over the
\* full footprint box around the cell of the position and under the caller's
\* epoch; it samples no terrain, draws no epoch, and returns true if and only
\* if the STRUCTURE bit of the query's bitmask is clear.
C19_PositionQueriesOnce ==
    [][pc = "rangeDone" =>
          LET n == Len(rq'.queries)
              q == rq'.queries[n]
          IN  /\ n = Len(rq.queries) + 1
              /\ q.range = [xmin |-> Trunc(in.startPos.x, Cell) - md.xsizeh,
                            xmax |-> Trunc(in.startPos.x, Cell) + md.xsizeh,
                            zmin |-> Trunc(in.startPos.z, Cell) - md.zsizeh,
                            zmax |-> Trunc(in.startPos.z, Cell) + md.zsizeh]
              /\ q.epoch = rq'.magicNum
              /\ rq'.sampled = rq.sampled
              /\ env'.speed = env.speed
              /\ env'.mtTempNum = env.mtTempNum
              /\ rq'.posObjects <=> ~HasBit(q.blockBits, BLOCK_STRUCTURE)]_vars

\* a centerOnly range call followed by a position test with the highest epoch
\* on a wider footprint, which found a structure
C19_Witness ==
    /\ pc = "allDone"
    /\ in.centerOnly
    /\ md.xsizeh > 0
    /\ rq.magicNum = NumThreads
    /\ rq.queries[Len(rq.queries)].epoch = NumThreads
    /\ ~rq.posObjects

----------------------------------------------------------------------------
(* Claims about the depth modifier of constructed profiles *)

\* f <= g for two floats n / d with d > 0
FracLeq(f, g) == f.n * g.d <= g.n * f.d

\* C20: for every constructed profile, of two heights at or below -minHeight
\* the lower one has the smaller or equal depth modifier: GetDepthMod does not
\* increase as h decreases below -minHeight.
C20_DepthModMonotone ==
    (pc = "depth" /\ out.prev.set) =>
        LET lo == IF out.prev.height <= out.height THEN out.prev ELSE out
            hi == IF out.prev.height <= out.height THEN out ELSE out.prev
        IN  hi.height <= -md.depthModParams.minHeight => FracLeq(lo.depthMod, hi.depthMod)

\* a ground profile read at two heights at or below -minHeight and not below
\* -maxHeight, the lower reading strictly smaller and not 0
C20_Witness ==
    /\ pc = "depth"
    /\ out.prev.set
    /\ md.followGround
    /\ out.prev.height < out.height
    /\ out.height <= -md.depthModParams.minHeight
    /\ out.prev.height >= -md.depthModParams.maxHeight
    /\ out.prev.depthMod.n > 0
    /\ ~FracLeq(out.depthMod, out.prev.depthMod)

----------------------------------------------------------------------------
(* Claims about the slope limits of constructed profiles *)

\* a Tank or KBot profile configured with maxSlope = 60 and no slopeMod
IsSixtyDegreeGround ==
    /\ pc \in {"built", "depth"}
    /\ md.followGround
    /\ "maxSlope" \in DOMAIN in.table
    /\ in.table["maxSlope"] = 60
    /\ "slopeMod" \notin DOMAIN in.table

\* C21 as stated: a Tank or KBot profile configured with maxSlope = 60 degrees
\* and no explicit slopeMod gets maxSlope = 1.0 and a default slopeMod of
\* exactly 4.0.
C21_SlopeModFour ==
    IsSixtyDegreeGround =>
        /\ md.maxSlope = 1000
        /\ md.slopeMod.n = 4 * md.slopeMod.d

\* C21 amended: such a profile gets maxSlope = 1.0 and a default slopeMod of
\* 4 / 1.001, which is below 4.0.
C21_SlopeModBelowFour ==
    IsSixtyDegreeGround =>
        /\ md.maxSlope = 1000
        /\ md.slopeMod.n * 1001 = 4000 * md.slopeMod.d
        /\ md.slopeMod.n < 4 * md.slopeMod.d

C21_Witness ==
    /\ IsSixtyDegreeGround
    /\ md.speedModClass = "KBot"
    /\ md.slopeMod = [n |-> 4000, d |-> 1001]

----------------------------------------------------------------------------
(* Claims about the depth-mod parameters of constructed profiles *)

ConfiguredDepthModParams == GetValue(in.table, "depthModParams", EmptyMap)

\* C22: every constructed profile, of every speed class and whatever
\* depthModParams its table holds, has minHeight >= 0, maxHeight >= minHeight
\* and maxScale >= 0.01.
C22_DepthModParamsValid ==
    pc \in {"built", "depth"} =>
        /\ md.depthModParams.minHeight >= 0
        /\ md.depthModParams.maxHeight >= md.depthModParams.minHeight
        /\ md.depthModParams.maxScale >= MIN_SCALE

\* a ground profile configured with maxHeight below minHeight and a maxScale
\* below 0.01: maxHeight was raised to minHeight and maxScale to 0.01
C22_Witness ==
    /\ pc = "built"
    /\ md.followGround
    /\ GetValue(ConfiguredDepthModParams, "minHeight", 0) = 2
    /\ GetValue(ConfiguredDepthModParams, "maxHeight", FLT_MAX) = 0
    /\ GetValue(ConfiguredDepthModParams, "maxScale", FLT_MAX) = 0
    /\ md.depthModParams.minHeight = 2
    /\ md.depthModParams.maxHeight = 2
    /\ md.depthModParams.maxScale = MIN_SCALE

----------------------------------------------------------------------------
(* Claims about the order of the tests within a call *)

\* the cells of the terrain tests and of the blocking queries, in call order
TerrainBlks == [i \in DOMAIN log.terrain |-> Int2(log.terrain[i].x, log.terrain[i].z)]
QueryBlks == [i \in DOMAIN log.queries |-> Int2(log.queries[i].x, log.queries[i].z)]

\* the walk stopped at test i, the last of blks, returned false, and its cursors
\* are where test i (and, for a reverse test, the forward test before it) found them
StoppedAt(i, blks) ==
    /\ i = Len(blks)
    /\ ~walk.running /\ ~walk.result
    /\ ~loc.retTestMove
    /\ walk.iters = (i + 1) \div 2
    /\ IF i % 2 = 1
       THEN walk.cur = "fwd" /\ walk.fwdTestBlk = blks[i]
       ELSE walk.cur = "rev" /\ walk.revTestBlk = blks[i] /\ walk.fwdTestBlk = blks[i - 1]
    /\ pc = "done" => ~out.result

\* C23: in a line walk, once a cell test fails no further cell is tested: the
\* failing test is the last one of the call, a failing forward cell leaves the
\* reverse cell of its iteration untested, neither cursor is stepped again and
\* the walk returns false.
C23_WalkStopsAtFirstFailure ==
    /\ \A i \in DOMAIN log.terrain :
          ~log.terrain[i].ok => StoppedAt(i, TerrainBlks)
    /\ \A i \in DOMAIN log.queries :
          BlocksStructure(log.queries[i].blockBits) =>
              StoppedAt(i, QueryBlks)

\* a call returned after its forward cell failed in the second iteration
C23_Witness ==
    /\ pc = "done"
    /\ Len(log.terrain) = 3
    /\ ~log.terrain[3].ok
    /\ TerrainBlks[3] # TerrainBlks[1]
    /\ ~out.result

\* some terrain test of the call failed
TerrainWalkFailed == \E i \in DOMAIN log.terrain : ~log.terrain[i].ok

\* the terrain walk tested every cell of its line and every test passed
TerrainWalkPassed ==
    /\ ~TerrainWalkFailed
    /\ TerrainCells = WalkCells(StartBlock(in.startPos), EndBlock(in.startPos, in.endPos))

\* C24: a call with testTerrain and testObjects issues blocking queries (and
\* draws its epoch) only after the whole terrain walk has passed; when the
\* terrain walk fails or testObjects is false, no blocking query is issued, no
\* epoch is drawn and the thread's counter is unchanged, and the maxBlockBit
\* reported is BLOCK_NONE.
C24_ObjectsOnlyAfterTerrainPassed ==
    /\ (in.testTerrain /\ (log.queries # <<>> \/ log.draws > 0)) => TerrainWalkPassed
    /\ (TerrainWalkFailed \/ ~in.testObjects) =>
          /\ log.queries = <<>>
          /\ log.draws = 0
          /\ env.mtTempNum = [t \in Threads |-> 1]
          /\ env.block = EmptyMap
          /\ loc.maxBlockBit = BLOCK_NONE
          /\ pc = "done" => out.maxBlockBit = BLOCK_NONE /\ ~(TerrainWalkFailed /\ out.result)

\* a call with both flags returned after its terrain walk failed on a later cell
C24_Witness ==
    /\ pc = "done"
    /\ in.testTerrain /\ in.testObjects
    /\ TerrainWalkFailed
    /\ Len(log.terrain) > 1
    /\ out.maxBlockBit = BLOCK_NONE

----------------------------------------------------------------------------
(* Claims about the terrain class of ground and hover profiles *)

ConfiguredMinWaterDepth == GetValue(in.table, "minWaterDepth", DEFAULT_MIN_WATER_DEPTH)
ConfiguredMaxWaterDepth == GetValue(in.table, "maxWaterDepth", DEFAULT_MAX_WATER_DEPTH)

\* a constructed Tank or KBot profile whose maxWaterDepth is <= 0
IsDryGround ==
    /\ pc \in {"built", "depth"}
    /\ md.followGround
    /\ ConfiguredMaxWaterDepth <= 0

IsHover == pc \in {"built", "depth"} /\ md.speedModClass = "Hover"

\* C25 as stated: every Tank or KBot profile whose maxWaterDepth is <= 0, and
\* every Hover profile, is constructed with terrainClass = Land, whatever its
\* minWaterDepth is.
C25_DryGroundIsLand == (IsDryGround \/ IsHover) => md.terrainClass = "Land"

\* C25 amended: every Hover profile is Land; a Tank or KBot profile whose
\* maxWaterDepth is <= 0 is Land when its minWaterDepth is <= 0 and Water when
\* its minWaterDepth is above 0.
C25_DryGroundIsLandUnlessSnorkel ==
    /\ IsHover => md.terrainClass = "Land"
    /\ IsDryGround =>
          md.terrainClass = IF ConfiguredMinWaterDepth > 0 THEN "Water" ELSE "Land"

\* a Tank or KBot profile with maxWaterDepth <= 0 and minWaterDepth > 0, built Water
C25_Witness ==
    /\ IsDryGround
    /\ ConfiguredMinWaterDepth > 0
    /\ md.terrainClass = "Water"

----------------------------------------------------------------------------
(* Claims about the length of the walk *)

\* dx + dz + 1 for the walk's start and end cell
WalkBound == walk.diffBlk.x + walk.diffBlk.y + 1

\* the loop has run at most WalkBound iterations and made at most two cell
\* tests in each, and blkStepCtr has lost at least one per iteration begun
WalkWithinBound ==
    pc # "call" =>
        /\ walk.iters <= WalkBound
        /\ Len(log.terrain) <= 2 * walk.iters
        /\ Len(log.terrain) <= 2 * WalkBound
        /\ walk.blkStepCtr.x <= WalkBound - (walk.iters - 1)
        /\ walk.blkStepCtr.y <= WalkBound - (walk.iters - 1)
        /\ walk.running => walk.blkStepCtr.x > 0 /\ walk.blkStepCtr.y > 0

\* C26: every line walk terminates: for absolute cell deltas dx and dz the loop
\* runs at most dx + dz + 1 iterations and makes at most 2 * (dx + dz + 1) cell
\* tests, and the call returns.
C26_WalkTerminatesWithinBound == []WalkWithinBound /\ <>(pc = "done")

\* returned walks: along an exact diagonal over several iterations, and
\* between equal cells in the single iteration the bound allows
C26_Witness ==
    /\ pc = "done"
    /\ \/ walk.diffBlk.x = walk.diffBlk.y /\ walk.diffBlk.x >= 3 /\ walk.iters >= 2
       \/ walk.diffBlk = Int2(0, 0) /\ walk.iters = WalkBound /\ Len(log.terrain) = 2 * WalkBound

----------------------------------------------------------------------------
(* Claims about off-map cells in the object walk *)

\* C27: in the object walk of a submersible collider, every read of the
\* max-height map is made at a visited cell inside the map (0 <= x < mapx and
\* 0 <= z < mapy), also when the start or end position lies off the map.
C27_HeightReadsInsideMap ==
    \A i \in DOMAIN log.reads :
        /\ 0 <= log.reads[i].x /\ log.reads[i].x < MapX
        /\ 0 <= log.reads[i].z /\ log.reads[i].z < MapY

NonEmptyRange(r) == r.xmin <= r.xmax /\ r.zmin <= r.zmax

\* no cell of range r lies outside the map
WithinMap(r) == r.xmin >= 0 /\ r.zmin >= 0 /\ r.xmax <= MapX - 1 /\ r.zmax <= MapY - 1

\* the footprint box around cell (x, z) has a cell inside the map
FootprintMeetsMap(x, z) ==
    LET hx == md.xsizeh * (1 - B2I(in.centerOnly))
        hz == md.zsizeh * (1 - B2I(in.centerOnly))
    IN  x + hx >= 0 /\ x - hx <= MapX - 1 /\ z + hz >= 0 /\ z - hz <= MapY - 1

\* C28 as stated: every blocking query of a call covers a non-empty cell range
\* lying inside the map, 0 <= xmin <= xmax <= mapx-1 and 0 <= zmin <= zmax <=
\* mapy-1, for every visited cell including cells outside the map.
C28_QueryRangeNonEmptyInsideMap ==
    \A i \in DOMAIN log.queries :
        LET r == log.queries[i].range
        IN  /\ 0 <= r.xmin /\ r.xmin <= r.xmax /\ r.xmax <= MapX - 1
            /\ 0 <= r.zmin /\ r.zmin <= r.zmax /\ r.zmax <= MapY - 1

\* C28 amended: every blocking query has xmin >= 0, zmin >= 0, xmax <= mapx-1
\* and zmax <= mapy-1, so it covers no cell outside the map; its range is
\* non-empty exactly when the footprint box of the visited cell meets the map,
\* and contains the visited cell when that cell is inside the map.
C28_QueryRangeClampedToMap ==
    \A i \in DOMAIN log.queries :
        LET q == log.queries[i]
            r == q.range
        IN  /\ WithinMap(r)
            /\ NonEmptyRange(r) <=> FootprintMeetsMap(q.x, q.z)
            /\ ~OffMap(q.x, q.z) =>
                  r.xmin <= q.x /\ q.x <= r.xmax /\ r.zmin <= q.z /\ q.z <= r.zmax

\* a blocking query was made on a cell off the map with an empty range
C28_Witness ==
    \E i \in DOMAIN log.queries :
        /\ OffMap(log.queries[i].x, log.queries[i].z)
        /\ ~NonEmptyRange(log.queries[i].range)
        /\ WithinMap(log.queries[i].range)

----------------------------------------------------------------------------
(* Claims comparing the bidirectional walk with a single cursor *)

\* the cells one cursor visits from pos on, stepping by StepFunc with the
\* forward direction and accumulator of walk w until it stands on the end
\* cell, or n steps were made
RECURSIVE SingleCursorFrom(_, _, _, _)
SingleCursorFrom(w, pos, err, n) ==
    {pos} \cup
        (IF pos = w.endBlock \/ n = 0 THEN {}
         ELSE LET s == StepFunc(w.fwdStepDir, Int2(w.diffBlk.x * 2, w.diffBlk.y * 2), pos, err)
              IN  SingleCursorFrom(w, s.pos, Int2(s.err.x, s.err.x), n - 1))

SingleCursorCells(startBlock, endBlock) ==
    LET w == WalkInit(startBlock, endBlock)
    IN  SingleCursorFrom(w, w.fwdTestBlk, w.fwdStepErr, w.diffBlk.x + w.diffBlk.y)

\* cell c lies in the rectangle spanned by cells a and b
InRectangle(c, a, b) ==
    /\ Min(a.x, b.x) <= c.x /\ c.x <= Max(a.x, b.x)
    /\ Min(a.y, b.y) <= c.y /\ c.y <= Max(a.y, b.y)

\* C29: when no cell test fails, the bidirectional walk tests exactly the cells
\* a single cursor visits walking from the start cell to the end cell with the
\* same step rule and error accumulator, and every tested cell lies in the
\* rectangle spanned by the start and end cells.
C29_WalkEqualsSingleCursor ==
    PassedTerrainWalk =>
        LET a == StartBlock(in.startPos)
            b == EndBlock(in.startPos, in.endPos)
        IN  /\ TerrainCells = SingleCursorCells(a, b)
            /\ \A c \in TerrainCells : InRectangle(c, a, b)

\* a passed walk of several iterations that turns at least once
C29_Witness ==
    /\ PassedTerrainWalk
    /\ walk.iters >= 3
    /\ walk.diffBlk.x >= 2 /\ walk.diffBlk.y >= 2 /\ walk.diffBlk.x # walk.diffBlk.y
    /\ TerrainCells = SingleCursorCells(walk.startBlock, walk.endBlock)

----------------------------------------------------------------------------
(* Claims about the side of the start cell the end cell lies on *)

\* end cell index e lies on the side of start cell index s that end
\* coordinate b lies of start coordinate a, or equals s
SameSideOrEqual(a, b, s, e) ==
    /\ a < b => s <= e
    /\ b < a => e <= s
    /\ a = b => e = s

\* C30: for every pair of start and end positions, fractional ones included,
\* on each axis the end cell lies on the same side of the start cell as the
\* end position lies of the start position, or has the start cell's index: the
\* bias never moves the end cell past the start cell against the direction of
\* travel.
C30_EndCellNotBehindStartCell ==
    pc # "call" =>
        /\ SameSideOrEqual(in.startPos.x, in.endPos.x, walk.startBlock.x, walk.endBlock.x)
        /\ SameSideOrEqual(in.startPos.z, in.endPos.z, walk.startBlock.y, walk.endBlock.y)

====
